---------------------------- MODULE Spec2Model ----------------------------
(***************************************************************************)
(* Graph construction and graph analysis engine of the data explorer:      *)
(*   GraphBuilderService.buildDataset   (rows + mapping -> Dataset)        *)
(*   AnalysisService.findPaths          (simple path enumeration)          *)
(*   AnalysisService.analyzeImpact      (layered downstream reachability)  *)
(* Each operation is a pure function of its arguments (plus the static     *)
(* type-to-color table of the builder); it is modelled as an operator      *)
(* computed the way the code computes it, and applied by one action of a   *)
(* specification whose initial states draw the arguments from small sets.  *)
(***************************************************************************)
EXTENDS Integers, Sequences, FiniteSets, TLC

VARIABLES
  rawData,       \* RawData.rows handed to buildDataset
  mapping,       \* MappingConfiguration handed to buildDataset
  typeColorMap,  \* GraphBuilderService.typeColorMap (static, survives calls)
  built,         \* Dataset returned by the last buildDataset call
  dataset,       \* Dataset handed to findPaths / analyzeImpact
  sourceIds,     \* sourceIds argument
  targetIds,     \* targetIds argument (findPaths, filterDataset)
  targetTypes,   \* targetTypes argument (filterByNodeTypes)
  maxParam,      \* maxLength (findPaths) or maxDepth (analyzeImpact, filters)
  pathResult,    \* PathAnalysisResult returned by findPaths
  impactResult,  \* ImpactAnalysisResult returned by analyzeImpact
  filtered,      \* Dataset returned by the last GraphFilterService call
  search,        \* one findAllPaths search, call by call: its frames and arrays
  expansion,     \* one analyzeImpact run, layer by layer
  app,           \* main.ts: the datasets the application and its components hold
  phase          \* "input" before the call, then the name of the call made

vars == <<rawData, mapping, typeColorMap, built, dataset, sourceIds,
          targetIds, targetTypes, maxParam, pathResult, impactResult,
          filtered, search, expansion, app, phase>>

-----------------------------------------------------------------------------
(* Generic helpers *)

Range(s) == {s[i] : i \in 1..Len(s)}

\* All sequences over S of length 0..n
SeqsUpTo(S, n) == UNION {[1..k -> S] : k \in 0..n}

NoDup(s) == \A i, j \in 1..Len(s) : i # j => s[i] # s[j]

Min(a, b) == IF a <= b THEN a ELSE b

-----------------------------------------------------------------------------
(* JavaScript values of a row cell *)

Undefined == [kind |-> "undefined", v |-> ""]
Null      == [kind |-> "null", v |-> ""]
Str(s)    == [kind |-> "string", v |-> s]

\* String(x): undefined -> "undefined", null -> "null", a string is itself
String(x) ==
  CASE x.kind = "undefined" -> "undefined"
    [] x.kind = "null"      -> "null"
    [] OTHER                -> x.v

\* row[column]: undefined when the row has no such property
Cell(row, column) == IF column \in DOMAIN row THEN row[column] ELSE Undefined

-----------------------------------------------------------------------------
(* GraphBuilderService.buildDataset *)

\* The preset entries of the static type-to-color table
PresetTypeColorMap ==
  [t \in {"schema", "table", "column", "view", "procedure", "user", "group"} |->
     CASE t = "schema"    -> "#4682B4"
       [] t = "table"     -> "#2ECC71"
       [] t = "column"    -> "#E74C3C"
       [] t = "view"      -> "#F39C12"
       [] t = "procedure" -> "#3498DB"
       [] t = "user"      -> "#9B59B6"
       [] OTHER           -> "#ECF0F1"]

RECURSIVE StoreColorsIfAbsent(_, _, _)
StoreColorsIfAbsent(colors, classes, i) ==
  IF i > Len(classes) THEN colors
  ELSE LET c == classes[i]
           stored == [t \in DOMAIN colors \cup {c.id} |->
                        IF t \in DOMAIN colors THEN colors[t] ELSE c.color]
       IN StoreColorsIfAbsent(stored, classes, i + 1)

\* typeColorMap[classId] = classDefinition.color, for each class in order
RECURSIVE StoreColors(_, _, _)
StoreColors(colors, classes, i) ==
  IF i > Len(classes) THEN colors
  ELSE LET c == classes[i]
           stored == [t \in DOMAIN colors \cup {c.id} |->
                        IF t = c.id THEN c.color ELSE colors[t]]
       IN StoreColors(stored, classes, i + 1)

EntityIdMissingEmptyOnly(entityId) == entityId = ""

\* !entityId || entityId === 'undefined' || entityId === 'null'
EntityIdMissing(entityId) ==
  entityId = "" \/ entityId = "undefined" \/ entityId = "null"

\* `${classId}:${entityId}`
FullEntityId(classId, entityId) == classId \o ":" \o entityId

AlreadyProcessedNever(entityMap, fullEntityId) == FALSE

\* entityMap.has(fullEntityId)
AlreadyProcessed(entityMap, fullEntityId) == fullEntityId \in entityMap

\* the metadata object: every listed column the row defines
ExtractMetadata(row, metadataColumns) ==
  [c \in {m \in Range(metadataColumns) : Cell(row, m) # Undefined} |-> Cell(row, c)]

\* row[labelColumn] !== undefined && row[labelColumn] !== null
\*   ? String(row[labelColumn]) : entityId
EntityLabel(row, labelColumn, entityId) ==
  IF Cell(row, labelColumn) # Undefined /\ Cell(row, labelColumn) # Null
  THEN String(Cell(row, labelColumn))
  ELSE entityId

\* The entity a row yields for a class
MakeEntity(classDefinition, row) ==
  LET entityId == String(Cell(row, classDefinition.sourceColumn))
  IN [id       |-> FullEntityId(classDefinition.id, entityId),
      type     |-> classDefinition.id,
      label    |-> EntityLabel(row, classDefinition.labelColumn, entityId),
      metadata |-> ExtractMetadata(row, classDefinition.metadataColumns)]

\* for (const row of rawData.rows) of the entity pass; acc = [entities, entityMap]
RECURSIVE EntityRows(_, _, _, _)
EntityRows(classDefinition, rows, i, acc) ==
  IF i > Len(rows) THEN acc
  ELSE LET row          == rows[i]
           entityId     == String(Cell(row, classDefinition.sourceColumn))
           fullEntityId == FullEntityId(classDefinition.id, entityId)
       IN IF EntityIdMissing(entityId)
          THEN EntityRows(classDefinition, rows, i + 1, acc)
          ELSE IF AlreadyProcessed(acc.entityMap, fullEntityId)
          THEN EntityRows(classDefinition, rows, i + 1, acc)
          ELSE EntityRows(classDefinition, rows, i + 1,
                 [entities  |-> Append(acc.entities, MakeEntity(classDefinition, row)),
                  entityMap |-> acc.entityMap \cup {fullEntityId}])

\* for (const classDefinition of mapping.classes)
RECURSIVE EntityPass(_, _, _, _)
EntityPass(classes, rows, c, acc) ==
  IF c > Len(classes) THEN acc
  ELSE EntityPass(classes, rows, c + 1, EntityRows(classes[c], rows, 1, acc))

\* row[column] !== undefined ? String(row[column]) : ''
EndpointValue(row, column) ==
  IF Cell(row, column) # Undefined THEN String(Cell(row, column)) ELSE ""

\* the skip test for a missing source or target value
EndpointMissing(sourceEntityId, targetEntityId) ==
  \/ sourceEntityId = "" \/ targetEntityId = ""
  \/ sourceEntityId = "undefined" \/ targetEntityId = "undefined"
  \/ sourceEntityId = "null" \/ targetEntityId = "null"

EndpointUnknownSourceOnly(entityMap, sourceFullId, targetFullId) ==
  sourceFullId \notin entityMap

\* !entityMap.has(sourceFullId) || !entityMap.has(targetFullId)
EndpointUnknown(entityMap, sourceFullId, targetFullId) ==
  sourceFullId \notin entityMap \/ targetFullId \notin entityMap

IsSelfLoopNever(sourceFullId, targetFullId) == FALSE

\* sourceFullId === targetFullId
IsSelfLoop(sourceFullId, targetFullId) == sourceFullId = targetFullId

\* `${relId}:${sourceEntityId}-${targetEntityId}`
RelationshipId(relId, sourceEntityId, targetEntityId) ==
  relId \o ":" \o sourceEntityId \o "-" \o targetEntityId

RelationshipExistsNever(relationships, relationshipId) == FALSE

\* relationships.some(r => r.id === relationshipId)
RelationshipExists(relationships, relationshipId) ==
  \E k \in 1..Len(relationships) : relationships[k].id = relationshipId

\* for (const row of rawData.rows) of the relationship pass
RECURSIVE RelationshipRows(_, _, _, _, _)
RelationshipRows(relationshipDef, rows, i, entityMap, relationships) ==
  IF i > Len(rows) THEN relationships
  ELSE LET row            == rows[i]
           sourceEntityId == EndpointValue(row, relationshipDef.sourceColumn)
           targetEntityId == EndpointValue(row, relationshipDef.targetColumn)
           sourceFullId   == FullEntityId(relationshipDef.sourceClass, sourceEntityId)
           targetFullId   == FullEntityId(relationshipDef.targetClass, targetEntityId)
           relationshipId == RelationshipId(relationshipDef.id, sourceEntityId, targetEntityId)
           skip ==
             \/ EndpointMissing(sourceEntityId, targetEntityId)
             \/ EndpointUnknown(entityMap, sourceFullId, targetFullId)
             \/ IsSelfLoop(sourceFullId, targetFullId)
             \/ RelationshipExists(relationships, relationshipId)
           relationship ==
             [id       |-> relationshipId,
              source   |-> sourceFullId,
              target   |-> targetFullId,
              type     |-> relationshipDef.id,
              metadata |-> ExtractMetadata(row, relationshipDef.metadataColumns)]
       IN RelationshipRows(relationshipDef, rows, i + 1, entityMap,
            IF skip THEN relationships ELSE Append(relationships, relationship))

\* for (const relationshipDef of mapping.relationships)
RECURSIVE RelationshipPass(_, _, _, _, _)
RelationshipPass(defs, rows, d, entityMap, relationships) ==
  IF d > Len(defs) THEN relationships
  ELSE RelationshipPass(defs, rows, d + 1, entityMap,
         RelationshipRows(defs[d], rows, 1, entityMap, relationships))

\* buildDataset(rawData, mapping): { entities, relationships }
buildDataset(rows, m) ==
  LET pass == EntityPass(m.classes, rows, 1, [entities |-> <<>>, entityMap |-> {}])
  IN [entities      |-> pass.entities,
      relationships |-> RelationshipPass(m.relationships, rows, 1, pass.entityMap, <<>>)]

-----------------------------------------------------------------------------
(* AnalysisService.buildAdjacencyMap *)

OutgoingEdgeUnnamed(targetId, edgeId) == [target |-> targetId, edgeId |-> ""]

\* { target: targetId, edgeId: relationship.id }
OutgoingEdge(targetId, edgeId) == [target |-> targetId, edgeId |-> edgeId]
IncomingEdge(sourceId, edgeId) == [source |-> sourceId, edgeId |-> edgeId]

\* for (const relationship of dataset.relationships)
RECURSIVE AddRelationships(_, _, _)
AddRelationships(adjacencyMap, relationships, i) ==
  IF i > Len(relationships) THEN adjacencyMap
  ELSE LET sourceId == relationships[i].source
           targetId == relationships[i].target
           edgeId   == relationships[i].id
           withOutgoing ==
             IF sourceId \in DOMAIN adjacencyMap
             THEN [adjacencyMap EXCEPT ![sourceId].outgoing =
                     Append(@, OutgoingEdge(targetId, edgeId))]
             ELSE adjacencyMap
           withIncoming ==
             IF targetId \in DOMAIN withOutgoing
             THEN [withOutgoing EXCEPT ![targetId].incoming =
                     Append(@, IncomingEdge(sourceId, edgeId))]
             ELSE withOutgoing
       IN IF sourceId = "" \/ targetId = ""
          THEN AddRelationships(adjacencyMap, relationships, i + 1)
          ELSE AddRelationships(withIncoming, relationships, i + 1)

\* one empty record per entity, then the relationships
buildAdjacencyMap(ds) ==
  AddRelationships(
    [id \in {ds.entities[k].id : k \in 1..Len(ds.entities)} |->
       [outgoing |-> <<>>, incoming |-> <<>>]],
    ds.relationships, 1)

OutgoingOrIncoming(adjacencyMap, nodeId) ==
  IF nodeId \in DOMAIN adjacencyMap
  THEN adjacencyMap[nodeId].outgoing
         \o [k \in 1..Len(adjacencyMap[nodeId].incoming) |->
              OutgoingEdge(adjacencyMap[nodeId].incoming[k].source,
                           adjacencyMap[nodeId].incoming[k].edgeId)]
  ELSE <<>>

\* adjacencyMap[nodeId]?.outgoing || []
Outgoing(adjacencyMap, nodeId) ==
  IF nodeId \in DOMAIN adjacencyMap THEN adjacencyMap[nodeId].outgoing ELSE <<>>

-----------------------------------------------------------------------------
(* AnalysisService.findPaths and findAllPaths *)

\* The search state findAllPaths shares through its recursion: the arrays
\* currentPath and currentEdges, the set visited, and the result allPaths
SearchState(currentPath, currentEdges, visited, allPaths) ==
  [currentPath |-> currentPath, currentEdges |-> currentEdges,
   visited |-> visited, allPaths |-> allPaths]

PopKeep(s) == s

\* array.pop()
Pop(s) == SubSeq(s, 1, Len(s) - 1)

RecordedPathHopsAsLength(currentPath, currentEdges) ==
  [nodes |-> currentPath, edges |-> currentEdges,
   metadata |-> [length |-> Len(currentPath), hops |-> Len(currentPath)]]

\* the path object pushed on allPaths
RecordedPath(currentPath, currentEdges) ==
  [nodes |-> currentPath, edges |-> currentEdges,
   metadata |-> [length |-> Len(currentPath), hops |-> Len(currentPath) - 1]]

MaxLengthExceeded(currentPath, maxLength) == Len(currentPath) > maxLength

\* currentPath.length >= maxLength
MaxLengthReached(currentPath, maxLength) == Len(currentPath) >= maxLength

VisitedHasNever(visited, nextNode) == FALSE

\* visited.has(nextNode)
VisitedHas(visited, nextNode) == nextNode \in visited

VisitedKeep(visited, nextNode) == visited

\* visited.delete(nextNode)
VisitedDelete(visited, nextNode) == visited \ {nextNode}

RECURSIVE findAllPaths(_, _, _, _, _)
RECURSIVE TryConnections(_, _, _, _, _, _)

\* for (const edge of outgoingEdges): push, recurse, backtrack
TryConnections(adjacencyMap, outgoingEdges, e, targetNode, st, maxLength) ==
  IF e > Len(outgoingEdges) THEN st
  ELSE LET nextNode == outgoingEdges[e].target
           pushed == SearchState(Append(st.currentPath, nextNode),
                                 Append(st.currentEdges, outgoingEdges[e].edgeId),
                                 st.visited \cup {nextNode},
                                 st.allPaths)
           after == findAllPaths(adjacencyMap, nextNode, targetNode, pushed, maxLength)
           backtracked == SearchState(Pop(after.currentPath),
                                      Pop(after.currentEdges),
                                      VisitedDelete(after.visited, nextNode),
                                      after.allPaths)
       IN IF VisitedHas(st.visited, nextNode)
          THEN TryConnections(adjacencyMap, outgoingEdges, e + 1, targetNode, st, maxLength)
          ELSE TryConnections(adjacencyMap, outgoingEdges, e + 1, targetNode,
                              backtracked, maxLength)

\* findAllPaths(adjacencyMap, currentNode, targetNode, currentPath,
\*              currentEdges, visited, allPaths, maxLength)
findAllPaths(adjacencyMap, currentNode, targetNode, st, maxLength) ==
  IF currentNode = targetNode
  THEN [st EXCEPT !.allPaths =
          Append(@, RecordedPath(st.currentPath, st.currentEdges))]
  ELSE IF MaxLengthReached(st.currentPath, maxLength)
  THEN st
  ELSE TryConnections(adjacencyMap, Outgoing(adjacencyMap, currentNode), 1,
                      targetNode, st, maxLength)

SamePairNever(sourceId, targetId) == FALSE

\* sourceId === targetId
SamePair(sourceId, targetId) == sourceId = targetId

\* for (const targetId of targetIds)
RECURSIVE TargetLoop(_, _, _, _, _, _)
TargetLoop(adjacencyMap, sourceId, targets, t, paths, maxLength) ==
  IF t > Len(targets) THEN paths
  ELSE LET targetId == targets[t]
           found == findAllPaths(adjacencyMap, sourceId, targetId,
                      SearchState(<<sourceId>>, <<>>, {sourceId}, paths),
                      maxLength).allPaths
       IN IF \/ SamePair(sourceId, targetId)
             \/ sourceId \notin DOMAIN adjacencyMap
             \/ targetId \notin DOMAIN adjacencyMap
          THEN TargetLoop(adjacencyMap, sourceId, targets, t + 1, paths, maxLength)
          ELSE TargetLoop(adjacencyMap, sourceId, targets, t + 1, found, maxLength)

\* for (const sourceId of sourceIds)
RECURSIVE SourceLoop(_, _, _, _, _, _)
SourceLoop(adjacencyMap, sources, s, targets, paths, maxLength) ==
  IF s > Len(sources) THEN paths
  ELSE SourceLoop(adjacencyMap, sources, s + 1, targets,
                  TargetLoop(adjacencyMap, sources[s], targets, 1, paths, maxLength),
                  maxLength)

\* Math.min(...pathLengths) and Math.max(...pathLengths)
MinLength(paths) ==
  CHOOSE n \in {Len(paths[k].nodes) : k \in 1..Len(paths)} :
    \A k \in 1..Len(paths) : n <= Len(paths[k].nodes)
MaxLength(paths) ==
  CHOOSE n \in {Len(paths[k].nodes) : k \in 1..Len(paths)} :
    \A k \in 1..Len(paths) : n >= Len(paths[k].nodes)

PathMetrics(paths) ==
  [totalPaths         |-> Len(paths),
   shortestPathLength |-> IF Len(paths) > 0 THEN MinLength(paths) ELSE 0,
   longestPathLength  |-> IF Len(paths) > 0 THEN MaxLength(paths) ELSE 0]

\* findPaths(dataset, sourceIds, targetIds, maxLength): { paths, metrics }
findPaths(ds, sources, targets, maxLength) ==
  LET paths == SourceLoop(buildAdjacencyMap(ds), sources, 1, targets, <<>>, maxLength)
  IN [paths |-> paths, metrics |-> PathMetrics(paths)]

-----------------------------------------------------------------------------
(* AnalysisService.analyzeImpact and findIndirectImpacts *)

\* outgoingEdges.length > 5 marks a critical node
CriticalFanOut == 5

\* The arrays and the set analyzeImpact shares with findIndirectImpacts
ImpactState(directImpact, indirectImpact, visited, criticalPaths) ==
  [directImpact |-> directImpact, indirectImpact |-> indirectImpact,
   visited |-> visited, criticalPaths |-> criticalPaths]

Targets(edges) == [k \in 1..Len(edges) |-> edges[k].target]

ImpactVisitedHasNever(visited, nodeId) == FALSE

\* visited.has(neighbor.target), visited.has(neighbor)
ImpactVisitedHas(visited, nodeId) == nodeId \in visited

\* for (const neighbor of directNeighbors)
RECURSIVE DirectLoop(_, _, _)
DirectLoop(directNeighbors, n, st) ==
  IF n > Len(directNeighbors) THEN st
  ELSE LET target == directNeighbors[n].target
       IN IF ~ImpactVisitedHas(st.visited, target)
          THEN DirectLoop(directNeighbors, n + 1,
                 [st EXCEPT !.directImpact = Append(@, target),
                            !.visited = @ \cup {target}])
          ELSE DirectLoop(directNeighbors, n + 1, st)

\* for (const edge of outgoingEdges) of a layer node; acc = [st, nextLayer]
RECURSIVE NeighborLoop(_, _, _)
NeighborLoop(outgoingEdges, e, acc) ==
  IF e > Len(outgoingEdges) THEN acc
  ELSE LET neighbor == outgoingEdges[e].target
       IN IF ~ImpactVisitedHas(acc.st.visited, neighbor)
          THEN NeighborLoop(outgoingEdges, e + 1,
                 [st |-> [acc.st EXCEPT !.indirectImpact = Append(@, neighbor),
                                        !.visited = @ \cup {neighbor}],
                  nextLayer |-> Append(acc.nextLayer, neighbor)])
          ELSE NeighborLoop(outgoingEdges, e + 1, acc)

\* for (const nodeId of currentLayer); acc = [st, nextLayer]
RECURSIVE LayerLoop(_, _, _, _, _)
LayerLoop(adjacencyMap, currentLayer, n, currentPath, acc) ==
  IF n > Len(currentLayer) THEN acc
  ELSE LET nodeId == currentLayer[n]
           outgoingEdges == Outgoing(adjacencyMap, nodeId)
           flagged ==
             IF Len(outgoingEdges) > CriticalFanOut
             THEN [acc EXCEPT !.st.criticalPaths =
                     Append(@, Append(currentPath, nodeId))]
             ELSE acc
       IN IF nodeId \notin DOMAIN adjacencyMap
          THEN LayerLoop(adjacencyMap, currentLayer, n + 1, currentPath, acc)
          ELSE LayerLoop(adjacencyMap, currentLayer, n + 1, currentPath,
                         NeighborLoop(outgoingEdges, 1, flagged))

NextDepthSame(currentDepth) == currentDepth

\* currentDepth + 1, the depth of the next layer
NextDepth(currentDepth) == currentDepth + 1

MaxDepthExceeded(currentDepth, maxDepth) == currentDepth > maxDepth

\* currentDepth >= maxDepth
MaxDepthReached(currentDepth, maxDepth) == currentDepth >= maxDepth

\* findIndirectImpacts(adjacencyMap, currentLayer, indirectImpact, visited,
\*                     criticalPaths, currentDepth, maxDepth, currentPath)
RECURSIVE findIndirectImpacts(_, _, _, _, _, _)
findIndirectImpacts(adjacencyMap, currentLayer, st, currentDepth, maxDepth, currentPath) ==
  IF MaxDepthReached(currentDepth, maxDepth) THEN st
  ELSE LET layer == LayerLoop(adjacencyMap, currentLayer, 1, currentPath,
                              [st |-> st, nextLayer |-> <<>>])
       IN IF Len(layer.nextLayer) > 0
          THEN findIndirectImpacts(adjacencyMap, layer.nextLayer, layer.st,
                                   NextDepth(currentDepth), maxDepth,
                                   currentPath \o currentLayer)
          ELSE layer.st

\* for (const sourceId of sourceIds): direct neighbours, then the layers
RECURSIVE ImpactSourceLoop(_, _, _, _, _)
ImpactSourceLoop(adjacencyMap, sources, s, st, maxDepth) ==
  IF s > Len(sources) THEN st
  ELSE LET sourceId == sources[s]
           directNeighbors == Outgoing(adjacencyMap, sourceId)
           direct == DirectLoop(directNeighbors, 1, st)
       IN IF sourceId \notin DOMAIN adjacencyMap
          THEN ImpactSourceLoop(adjacencyMap, sources, s + 1, st, maxDepth)
          ELSE ImpactSourceLoop(adjacencyMap, sources, s + 1,
                 findIndirectImpacts(adjacencyMap, Targets(directNeighbors), direct,
                                     1, maxDepth, <<sourceId>>),
                 maxDepth)

\* Math.max(...criticalPaths.map(path => path.length - 1))
LongestCriticalPath(criticalPaths) ==
  CHOOSE n \in {Len(criticalPaths[k]) - 1 : k \in 1..Len(criticalPaths)} :
    \A k \in 1..Len(criticalPaths) : n >= Len(criticalPaths[k]) - 1

\* analyzeImpact(dataset, sourceIds, maxDepth):
\*   { directImpact, indirectImpact, metrics }
analyzeImpact(ds, sources, maxDepth) ==
  LET st == ImpactSourceLoop(buildAdjacencyMap(ds), sources, 1,
                             ImpactState(<<>>, <<>>, Range(sources), <<>>),
                             maxDepth)
  IN [directImpact   |-> st.directImpact,
      indirectImpact |-> st.indirectImpact,
      metrics |->
        [totalImpactedNodes |-> Len(st.directImpact) + Len(st.indirectImpact),
         maxDepth |-> IF Len(st.criticalPaths) > 0
                      THEN LongestCriticalPath(st.criticalPaths) ELSE 0,
         criticalPaths |-> Len(st.criticalPaths)]]

-----------------------------------------------------------------------------
(* GraphFilterService *)

\* GraphFilterService.buildAdjacencyMap: for (const relationship of
\* dataset.relationships)
RECURSIVE FilterAddRelationships(_, _, _)
FilterAddRelationships(adjacencyMap, relationships, i) ==
  IF i > Len(relationships) THEN adjacencyMap
  ELSE LET sourceId == relationships[i].source
           targetId == relationships[i].target
           edgeId   == relationships[i].id
           withOutgoing ==
             IF sourceId \in DOMAIN adjacencyMap
             THEN [adjacencyMap EXCEPT ![sourceId].outgoing =
                     Append(@, [target |-> targetId, edgeId |-> edgeId])]
             ELSE adjacencyMap
           withIncoming ==
             IF targetId \in DOMAIN withOutgoing
             THEN [withOutgoing EXCEPT ![targetId].incoming =
                     Append(@, [source |-> sourceId, edgeId |-> edgeId])]
             ELSE withOutgoing
       IN IF sourceId = "" \/ targetId = ""
          THEN FilterAddRelationships(adjacencyMap, relationships, i + 1)
          ELSE FilterAddRelationships(withIncoming, relationships, i + 1)

\* GraphFilterService.buildAdjacencyMap(dataset)
filterBuildAdjacencyMap(ds) ==
  FilterAddRelationships(
    [id \in {ds.entities[k].id : k \in 1..Len(ds.entities)} |->
       [outgoing |-> <<>>, incoming |-> <<>>]],
    ds.relationships, 1)

\* dataset.entities.filter(entity => ids.has(entity.id))
EntitiesIn(entities, ids) == SelectSeq(entities, LAMBDA entity : entity.id \in ids)

\* dataset.relationships.filter(rel => edgeIdsInPaths.has(rel.id))
RelationshipsIn(relationships, edgeIds) ==
  SelectSeq(relationships, LAMBDA rel : rel.id \in edgeIds)

BothEndpointsSourceOnly(rel, ids) == rel.source \in ids

\* ids.has(rel.source) && ids.has(rel.target)
BothEndpoints(rel, ids) == rel.source \in ids /\ rel.target \in ids

\* dataset.relationships.filter(rel => ids.has(rel.source) && ids.has(rel.target))
RelationshipsBetween(relationships, ids) ==
  SelectSeq(relationships, LAMBDA rel : BothEndpoints(rel, ids))

\* path.nodes.forEach(nodeId => nodeIdsInPaths.add(nodeId))
NodeIdsInPaths(paths) == UNION {Range(paths[k].nodes) : k \in 1..Len(paths)}

\* path.edges.forEach(edgeId => edgeIdsInPaths.add(edgeId))
EdgeIdsInPaths(paths) == UNION {Range(paths[k].edges) : k \in 1..Len(paths)}

\* Step 1 of filterDataset: the nodes and edges of the paths found
PathsSubgraph(ds, sources, targets, maxDepth) ==
  LET result == findPaths(ds, sources, targets, maxDepth)
  IN [entities      |-> EntitiesIn(ds.entities, NodeIdsInPaths(result.paths)),
      relationships |-> RelationshipsIn(ds.relationships,
                                        EdgeIdsInPaths(result.paths))]

\* Step 2 of filterDataset: the sources and what they impact
ImpactSubgraph(ds, sources, maxDepth) ==
  LET result == analyzeImpact(ds, sources, maxDepth)
      impactedNodeIds == Range(sources) \cup Range(result.directImpact)
                           \cup Range(result.indirectImpact)
  IN [entities      |-> EntitiesIn(ds.entities, impactedNodeIds),
      relationships |-> RelationshipsBetween(ds.relationships, impactedNodeIds)]

\* filterDataset(dataset, sourceIds, targetIds = [], maxDepth = 5): Dataset
filterDataset(ds, sources, targets, maxDepth) ==
  IF Len(sources) = 0 /\ Len(targets) = 0 THEN ds
  ELSE IF Len(sources) > 0 /\ Len(targets) > 0
       THEN PathsSubgraph(ds, sources, targets, maxDepth)
  ELSE IF Len(sources) > 0
       THEN ImpactSubgraph(ds, sources, maxDepth)
  ELSE ds

\* dataset.entities.filter(entity => targetTypes.includes(entity.type))
\*                 .map(entity => entity.id)
IdsOfTypes(entities, types) ==
  LET matching == SelectSeq(entities, LAMBDA entity : entity.type \in Range(types))
  IN [k \in 1..Len(matching) |-> matching[k].id]

NoSourceAndNoTypes(sources, types) == Len(sources) = 0 /\ Len(types) = 0

\* sourceIds.length === 0 || targetTypes.length === 0
NoSourceOrNoTypes(sources, types) == Len(sources) = 0 \/ Len(types) = 0

\* filterByNodeTypes(dataset, sourceIds, targetTypes = [], maxDepth = 5): Dataset
filterByNodeTypes(ds, sources, types, maxDepth) ==
  IF NoSourceOrNoTypes(sources, types) THEN ds
  ELSE filterDataset(ds, sources, IdsOfTypes(ds.entities, types), maxDepth)

QueueEntryDepthZero(nodeId, depth) == [nodeId |-> nodeId, depth |-> 0]

\* sourceIds.map(id => ({nodeId: id, depth: 0})), queue.push({nodeId, depth})
QueueEntry(nodeId, depth) == [nodeId |-> nodeId, depth |-> depth]

\* for (const edge of outgoingEdges); acc = [reachableNodes, queue]
RECURSIVE EnqueueLoop(_, _, _, _)
EnqueueLoop(outgoingEdges, e, depth, acc) ==
  IF e > Len(outgoingEdges) THEN acc
  ELSE LET target == outgoingEdges[e].target
       IN IF target \notin acc.reachableNodes
          THEN EnqueueLoop(outgoingEdges, e + 1, depth,
                 [reachableNodes |-> acc.reachableNodes \cup {target},
                  queue |-> Append(acc.queue, QueueEntry(target, depth + 1))])
          ELSE EnqueueLoop(outgoingEdges, e + 1, depth, acc)

QueueDepthExceeded(depth, maxDepth) == depth > maxDepth

\* depth >= maxDepth
QueueDepthReached(depth, maxDepth) == depth >= maxDepth

\* while (queue.length > 0); acc = [reachableNodes, queue]
RECURSIVE QueueLoop(_, _, _)
QueueLoop(adjacencyMap, acc, maxDepth) ==
  IF Len(acc.queue) = 0 THEN acc.reachableNodes
  ELSE LET nodeId == Head(acc.queue).nodeId
           depth  == Head(acc.queue).depth
           shifted == [acc EXCEPT !.queue = Tail(@)]
       IN IF QueueDepthReached(depth, maxDepth)
          THEN QueueLoop(adjacencyMap, shifted, maxDepth)
          ELSE QueueLoop(adjacencyMap,
                 EnqueueLoop(Outgoing(adjacencyMap, nodeId), 1, depth, shifted),
                 maxDepth)

\* extractReachableSubgraph(dataset, sourceIds, maxDepth = 5): Dataset
extractReachableSubgraph(ds, sources, maxDepth) ==
  IF Len(sources) = 0 THEN ds
  ELSE LET reachableNodes ==
             QueueLoop(filterBuildAdjacencyMap(ds),
                       [reachableNodes |-> Range(sources),
                        queue |-> [k \in 1..Len(sources) |->
                                     QueueEntry(sources[k], 0)]],
                       maxDepth)
       IN [entities      |-> EntitiesIn(ds.entities, reachableNodes),
           relationships |-> RelationshipsBetween(ds.relationships,
                                                  reachableNodes)]

-----------------------------------------------------------------------------
(* Inputs of buildDataset *)

MaxRows == 2

\* Rows of the uploaded table: an id (or null), a reference to another row's
\* id (or none), and a display name (or blank, or null)
Rows ==
  [id   : {Str("a"), Str("b"), Null},
   ref  : {Str("a"), Str("b"), Undefined},
   name : {Str("x"), Str(""), Null}]

ClassDef(id, sourceColumn, labelColumn, metadataColumns, color) ==
  [id |-> id, name |-> id, sourceColumn |-> sourceColumn,
   labelColumn |-> labelColumn, metadataColumns |-> metadataColumns,
   color |-> color]

RelDef(id, sourceClass, targetClass, sourceColumn, targetColumn) ==
  [id |-> id, name |-> id, sourceClass |-> sourceClass,
   targetClass |-> targetClass, sourceColumn |-> sourceColumn,
   targetColumn |-> targetColumn, metadataColumns |-> <<"name">>]

ClassP     == ClassDef("p", "id", "name", <<"name", "ref">>, "#111111")
ClassPRef  == ClassDef("p", "ref", "ref", <<>>, "#222222")
ClassQ     == ClassDef("q", "ref", "label", <<"id">>, "#333333")
ClassTable == ClassDef("table", "code", "name", <<>>, "#444444")

RelPQ    == RelDef("r", "p", "q", "id", "ref")
RelPP    == RelDef("r", "p", "p", "id", "ref")
RelSelf  == RelDef("s", "p", "p", "id", "id")
RelQP    == RelDef("r", "q", "p", "ref", "id")
RelNoCol == RelDef("m", "p", "q", "id", "code")
RelIdId  == RelDef("t", "p", "q", "id", "id")

Mapping(classes, relationships) ==
  [classes |-> classes, relationships |-> relationships]

\* Mapping configurations: a plain one, a self-referencing relationship, one
\* class id fed from two columns (either order), a repeated relationship
\* definition, columns no row has, a relationship to a class never built,
\* two definitions that share an id, and a relationship whose target exists
\* for some rows only
Mappings ==
  { Mapping(<<ClassP, ClassQ>>, <<RelPQ>>),
    Mapping(<<ClassP>>, <<RelSelf, RelPP>>),
    Mapping(<<ClassP, ClassPRef>>, <<RelPP>>),
    Mapping(<<ClassPRef, ClassP>>, <<RelPP, RelSelf>>),
    Mapping(<<ClassP, ClassQ>>, <<RelPQ, RelPQ>>),
    Mapping(<<ClassTable, ClassP, ClassQ>>, <<RelNoCol, RelPQ>>),
    Mapping(<<ClassP>>, <<RelPQ>>),
    Mapping(<<ClassQ, ClassP>>, <<RelQP, RelPQ>>),
    Mapping(<<ClassP, ClassQ>>, <<RelPP, RelPQ>>),
    Mapping(<<ClassTable, ClassP, ClassQ>>, <<RelNoCol, RelIdId>>) }

NoDataset == [entities |-> <<>>, relationships |-> <<>>]
NoPathResult ==
  [paths |-> <<>>,
   metrics |-> [totalPaths |-> 0, shortestPathLength |-> 0, longestPathLength |-> 0]]
NoImpactResult ==
  [directImpact |-> <<>>, indirectImpact |-> <<>>,
   metrics |-> [totalImpactedNodes |-> 0, maxDepth |-> 0, criticalPaths |-> 0]]

\* The variables an analysis call uses, while the builder runs
AnalysisIdle ==
  /\ dataset = NoDataset /\ sourceIds = <<>> /\ targetIds = <<>>
  /\ targetTypes = <<>> /\ maxParam = 0 /\ pathResult = NoPathResult
  /\ impactResult = NoImpactResult /\ filtered = NoDataset

\* The variables the builder uses, while an analysis call runs
BuilderIdle ==
  /\ rawData = <<>> /\ mapping = Mapping(<<>>, <<>>)
  /\ typeColorMap = PresetTypeColorMap /\ built = NoDataset

\* No search, no expansion and no application is running
NoSearch == [frames |-> <<>>]
NoExpansion == [pc |-> "idle"]
NoApp == [loaded |-> FALSE]
StepIdle == search = NoSearch /\ expansion = NoExpansion /\ app = NoApp

stepVars == <<search, expansion, app>>

analysisVars == <<dataset, sourceIds, targetIds, targetTypes, maxParam,
                  pathResult, impactResult, filtered>>
builderVars  == <<rawData, mapping, typeColorMap, built>>

-----------------------------------------------------------------------------
(* The builder's specification: a table and a mapping are given, the        *)
(* dataset is built, and the same table with one of its rows repeated at    *)
(* the end is built again.                                                  *)

InitBuild ==
  /\ rawData \in SeqsUpTo(Rows, MaxRows)
  /\ mapping \in Mappings
  /\ typeColorMap = PresetTypeColorMap
  /\ built = NoDataset
  /\ phase = "input"
  /\ AnalysisIdle
  /\ StepIdle

\* currentDataset = graphBuilder.buildDataset(currentRawData, currentMapping)
BuildDataset ==
  /\ phase = "input"
  /\ built' = buildDataset(rawData, mapping)
  /\ typeColorMap' = StoreColors(typeColorMap, mapping.classes, 1)
  /\ phase' = "built"
  /\ UNCHANGED <<rawData, mapping>>
  /\ UNCHANGED analysisVars
  /\ UNCHANGED stepVars

\* The table is uploaded again with a copy of one of its rows appended, and
\* the dataset is rebuilt under the same mapping
RebuildWithRepeatedRow ==
  /\ phase = "built"
  /\ \E i \in 1..Len(rawData) :
       /\ rawData' = Append(rawData, rawData[i])
       /\ built' = buildDataset(rawData', mapping)
  /\ typeColorMap' = StoreColors(typeColorMap, mapping.classes, 1)
  /\ phase' = "rebuilt"
  /\ UNCHANGED mapping
  /\ UNCHANGED analysisVars
  /\ UNCHANGED stepVars

NextBuild == BuildDataset \/ RebuildWithRepeatedRow

SpecBuild == InitBuild /\ [][NextBuild]_vars

-----------------------------------------------------------------------------
(* Inputs of findPaths and analyzeImpact *)

MaxEdges == 3
MaxLen   == 3
MaxDepth == 3

\* analyzeImpact(dataset, sourceIds, maxDepth = 5)
DefaultMaxDepth == 5

\* The ids a relationship may name
NodeIds == {"1", "2", "3"}

\* Entity "1" is a table, every other entity a column
EntityType(id) == IF id = "1" THEN "table" ELSE "column"

Entity(id) ==
  [id |-> id, type |-> EntityType(id), label |-> id, metadata |-> <<>>]

Relationship(id, sourceId, targetId) ==
  [id |-> id, source |-> sourceId, target |-> targetId, type |-> "default",
   metadata |-> <<>>]

\* `edge_${index}`
EdgeId(index) == "edge_" \o ToString(index)

\* Entities in the order given, relationships edge_0, edge_1, ... between
\* the given (source, target) pairs
GraphDataset(entityIds, pairs) ==
  [entities      |-> [k \in 1..Len(entityIds) |-> Entity(entityIds[k])],
   relationships |-> [k \in 1..Len(pairs) |->
                        Relationship(EdgeId(k - 1), pairs[k][1], pairs[k][2])]]

\* Every graph of up to MaxEdges relationships over NodeIds, cycles,
\* self-loops and parallel relationships included; with entities "1" and
\* "2" only, a relationship that names "3" dangles
GraphDatasets ==
  {GraphDataset(entityIds, pairs) :
     entityIds \in {<<"1", "2", "3">>, <<"1", "2">>},
     pairs \in SeqsUpTo(NodeIds \X NodeIds, MaxEdges)}

\* Node "1" with six outgoing relationships, to the leaves "2" .. "7"
FanOutDataset ==
  GraphDataset(<<"1", "2", "3", "4", "5", "6", "7">>,
               << <<"1", "2">>, <<"1", "3">>, <<"1", "4">>,
                  <<"1", "5">>, <<"1", "6">>, <<"1", "7">> >>)

\* The chain "1" -> "2" -> ... of MaxDepth + 1 relationships
ChainDataset ==
  GraphDataset([k \in 1..(MaxDepth + 2) |-> ToString(k)],
               [k \in 1..(MaxDepth + 1) |-> <<ToString(k), ToString(k + 1)>>])

\* The chain "1" -> "3" -> "4" -> ... of MaxDepth + 1 relationships, which
\* "2" joins at "4": the node before the last is MaxDepth relationships
\* from "1", and the last node is MaxDepth relationships from "2"
SharedTailDataset ==
  GraphDataset([k \in 1..(MaxDepth + 3) |-> ToString(k)],
               << <<"1", "3">> >>
                 \o [k \in 1..MaxDepth |-> <<ToString(k + 2), ToString(k + 3)>>]
                 \o << <<"2", "4">> >>)

\* "1" has the four neighbours "2" .. "5"; "2" leads to "6", which has six
\* outgoing relationships, to the leaves "7" .. "12"
WideLayerDataset ==
  GraphDataset([k \in 1..12 |-> ToString(k)],
               << <<"1", "2">>, <<"1", "3">>, <<"1", "4">>, <<"1", "5">>,
                  <<"2", "6">>,
                  <<"6", "7">>, <<"6", "8">>, <<"6", "9">>,
                  <<"6", "10">>, <<"6", "11">>, <<"6", "12">> >>)

SourceSelections == {<<"1">>, <<"1", "2">>, <<"3", "1">>}
TargetSelections ==
  {<<>>, <<"1">>, <<"3">>, <<"2", "3">>, <<"3", "1">>, <<"3", "3">>}

-----------------------------------------------------------------------------
(* The path analysis specification: one findPaths call on drawn arguments *)

InitPaths ==
  /\ dataset \in GraphDatasets
  /\ sourceIds \in SourceSelections
  /\ targetIds \in TargetSelections
  /\ maxParam \in 0..MaxLen
  /\ targetTypes = <<>>
  /\ pathResult = NoPathResult
  /\ impactResult = NoImpactResult
  /\ filtered = NoDataset
  /\ phase = "input"
  /\ BuilderIdle
  /\ StepIdle

\* const result = this.analysisService.findPaths(dataset, sources, targets, maxLength)
FindPaths ==
  /\ phase = "input"
  /\ pathResult' = findPaths(dataset, sourceIds, targetIds, maxParam)
  /\ phase' = "findPaths"
  /\ UNCHANGED <<dataset, sourceIds, targetIds, targetTypes, maxParam,
                 impactResult, filtered>>
  /\ UNCHANGED builderVars
  /\ UNCHANGED stepVars

NextPaths == FindPaths

SpecPaths == InitPaths /\ [][NextPaths]_vars

-----------------------------------------------------------------------------
(* The impact analysis specification: one analyzeImpact call *)

InitImpact ==
  /\ \/ /\ dataset \in GraphDatasets
        /\ sourceIds \in SourceSelections \cup {<<"2", "1">>, <<"1", "1">>}
        /\ maxParam \in 0..MaxDepth
     \/ /\ dataset = FanOutDataset
        /\ sourceIds = <<"1">>
        /\ maxParam = DefaultMaxDepth
     \/ /\ dataset = ChainDataset
        /\ sourceIds = <<"1">>
        /\ maxParam \in 0..MaxDepth
     \/ /\ dataset = SharedTailDataset
        /\ sourceIds \in {<<"1", "2">>, <<"2", "1">>}
        /\ maxParam = MaxDepth
     \/ /\ dataset = WideLayerDataset
        /\ sourceIds = <<"1">>
        /\ maxParam \in {MaxDepth, DefaultMaxDepth}
  /\ targetIds = <<>>
  /\ targetTypes = <<>>
  /\ pathResult = NoPathResult
  /\ impactResult = NoImpactResult
  /\ filtered = NoDataset
  /\ phase = "input"
  /\ BuilderIdle
  /\ StepIdle

\* const result = this.analysisService.analyzeImpact(dataset, selectedNodes, maxDepth)
AnalyzeImpact ==
  /\ phase = "input"
  /\ impactResult' = analyzeImpact(dataset, sourceIds, maxParam)
  /\ phase' = "analyzeImpact"
  /\ UNCHANGED <<dataset, sourceIds, targetIds, targetTypes, maxParam,
                 pathResult, filtered>>
  /\ UNCHANGED builderVars
  /\ UNCHANGED stepVars

NextImpact == AnalyzeImpact

SpecImpact == InitImpact /\ [][NextImpact]_vars

-----------------------------------------------------------------------------
(* The filter specification: the three GraphFilterService calls, each on    *)
(* the drawn arguments                                                      *)

\* Types asked of filterByNodeTypes; no entity is a "view"
TypeSelections == {<<"column">>, <<"view">>, <<"table", "column">>}

FilterSourceSelections == {<<>>, <<"1">>, <<"3", "1">>}
FilterTargetSelections == {<<>>, <<"1">>, <<"3">>, <<"2", "3">>}

InitFilter ==
  /\ dataset \in GraphDatasets
  /\ sourceIds \in FilterSourceSelections
  /\ \/ targetIds \in FilterTargetSelections /\ targetTypes = <<>>
     \/ targetIds = <<>> /\ targetTypes \in TypeSelections
  /\ maxParam \in 0..MaxDepth
  /\ pathResult = NoPathResult
  /\ impactResult = NoImpactResult
  /\ filtered = NoDataset
  /\ phase = "input"
  /\ BuilderIdle
  /\ StepIdle

filterVars == <<dataset, sourceIds, targetIds, targetTypes, maxParam,
                pathResult, impactResult>>

\* const filteredDataset = graphFilter.filterDataset(currentDataset, sourceIds, targetIds, maxDepth)
FilterDataset ==
  /\ phase = "input"
  /\ filtered' = filterDataset(dataset, sourceIds, targetIds, maxParam)
  /\ phase' = "filterDataset"
  /\ UNCHANGED filterVars
  /\ UNCHANGED builderVars
  /\ UNCHANGED stepVars

\* graphFilter.filterByNodeTypes(dataset, sourceIds, targetTypes, maxDepth)
FilterByNodeTypes ==
  /\ phase = "input"
  /\ filtered' = filterByNodeTypes(dataset, sourceIds, targetTypes, maxParam)
  /\ phase' = "filterByNodeTypes"
  /\ UNCHANGED filterVars
  /\ UNCHANGED builderVars
  /\ UNCHANGED stepVars

\* graphFilter.extractReachableSubgraph(dataset, sourceIds, maxDepth)
ExtractReachableSubgraph ==
  /\ phase = "input"
  /\ filtered' = extractReachableSubgraph(dataset, sourceIds, maxParam)
  /\ phase' = "extractReachableSubgraph"
  /\ UNCHANGED filterVars
  /\ UNCHANGED builderVars
  /\ UNCHANGED stepVars

NextFilter == FilterDataset \/ FilterByNodeTypes \/ ExtractReachableSubgraph

SpecFilter == InitFilter /\ [][NextFilter]_vars

-----------------------------------------------------------------------------
(* The index specification: the three calls that build an adjacency map,    *)
(* each on a dataset whose relationships may name an id that is no entity   *)
(* or the empty id                                                          *)

\* Every graph of up to MaxEdges relationships over the entities "1" and
\* "2", the id "3" that is no entity, and the empty id
IndexDatasets ==
  {GraphDataset(<<"1", "2">>, pairs) :
     pairs \in SeqsUpTo((NodeIds \cup {""}) \X (NodeIds \cup {""}), MaxEdges)}

InitIndex ==
  /\ dataset \in IndexDatasets
  /\ sourceIds = <<"1">>
  /\ targetIds = <<"2">>
  /\ targetTypes = <<>>
  /\ maxParam = MaxDepth
  /\ pathResult = NoPathResult
  /\ impactResult = NoImpactResult
  /\ filtered = NoDataset
  /\ phase = "input"
  /\ BuilderIdle
  /\ StepIdle

NextIndex == FindPaths \/ AnalyzeImpact \/ ExtractReachableSubgraph

SpecIndex == InitIndex /\ [][NextIndex]_vars

-----------------------------------------------------------------------------
(* The call-by-call specification: one findAllPaths search with its call    *)
(* stack explicit, or one analyzeImpact run with one step per               *)
(* findIndirectImpacts call                                                 *)

\* The arrays and the set a findAllPaths call shares with its callers
Shared(currentPath, currentEdges, visited) ==
  [currentPath |-> currentPath, currentEdges |-> currentEdges, visited |-> visited]

\* One activation of findAllPaths: its currentNode, where it stands ("entry",
\* "loop" at the edge-th outgoing edge, "backtrack" after the call made for
\* that edge), and the shared arrays as they were when it was entered
Frame(currentNode, pc, edge, entry) ==
  [currentNode |-> currentNode, pc |-> pc, edge |-> edge, entry |-> entry]

\* return: the running call leaves the stack
Return(frames) == SubSeq(frames, 1, Len(frames) - 1)
Top(frames) == frames[Len(frames)]
SetTop(frames, frame) == [frames EXCEPT ![Len(frames)] = frame]

NextEdgeSame(edge) == edge

\* for (const edge of outgoingEdges): the loop moves on to the next edge
NextEdge(edge) == edge + 1

SearchShared == Shared(search.currentPath, search.currentEdges, search.visited)

SearchAdjacencyMap == buildAdjacencyMap(dataset)

\* this.findAllPaths(adjacencyMap, sourceId, targetId, [sourceId], [],
\*                   new Set([sourceId]), allPaths, maxLength)
FirstCall(sourceId) ==
  [frames |-> <<Frame(sourceId, "entry", 0, Shared(<<sourceId>>, <<>>, {sourceId}))>>,
   currentPath |-> <<sourceId>>, currentEdges |-> <<>>, visited |-> {sourceId},
   allPaths |-> <<>>]

Searching == phase = "search" /\ Len(search.frames) > 0

\* Base case 1: the target is found, the path is recorded, the call returns
SearchFoundTarget ==
  /\ Searching
  /\ Top(search.frames).pc = "entry"
  /\ Top(search.frames).currentNode = targetIds[1]
  /\ search' = [search EXCEPT
                  !.allPaths = Append(@, RecordedPath(search.currentPath,
                                                      search.currentEdges)),
                  !.frames = Return(@)]
  /\ UNCHANGED <<phase, expansion, app>>
  /\ UNCHANGED <<analysisVars, builderVars>>

\* Base case 2: the maximum path length is reached, the call returns
SearchLengthReached ==
  /\ Searching
  /\ Top(search.frames).pc = "entry"
  /\ Top(search.frames).currentNode # targetIds[1]
  /\ MaxLengthReached(search.currentPath, maxParam)
  /\ search' = [search EXCEPT !.frames = Return(@)]
  /\ UNCHANGED <<phase, expansion, app>>
  /\ UNCHANGED <<analysisVars, builderVars>>

\* Otherwise the call starts on its outgoing edges
SearchBeginLoop ==
  /\ Searching
  /\ Top(search.frames).pc = "entry"
  /\ Top(search.frames).currentNode # targetIds[1]
  /\ ~MaxLengthReached(search.currentPath, maxParam)
  /\ search' = [search EXCEPT
                  !.frames = SetTop(@, [Top(@) EXCEPT !.pc = "loop", !.edge = 1])]
  /\ UNCHANGED <<phase, expansion, app>>
  /\ UNCHANGED <<analysisVars, builderVars>>

\* The edge the top call stands at
SearchEdge ==
  Outgoing(SearchAdjacencyMap, Top(search.frames).currentNode)[Top(search.frames).edge]

InLoop ==
  /\ Searching
  /\ Top(search.frames).pc = "loop"
  /\ Top(search.frames).edge
       <= Len(Outgoing(SearchAdjacencyMap, Top(search.frames).currentNode))

\* if (visited.has(nextNode)) continue
SearchSkipVisited ==
  /\ InLoop
  /\ VisitedHas(search.visited, SearchEdge.target)
  /\ search' = [search EXCEPT
                  !.frames = SetTop(@, [Top(@) EXCEPT !.edge = NextEdge(@)])]
  /\ UNCHANGED <<phase, expansion, app>>
  /\ UNCHANGED <<analysisVars, builderVars>>

\* push the next node and the edge, mark the node, and call findAllPaths
SearchDescend ==
  /\ InLoop
  /\ ~VisitedHas(search.visited, SearchEdge.target)
  /\ LET nextNode == SearchEdge.target
         pushed == Shared(Append(search.currentPath, nextNode),
                          Append(search.currentEdges, SearchEdge.edgeId),
                          search.visited \cup {nextNode})
     IN search' = [search EXCEPT
                     !.currentPath = pushed.currentPath,
                     !.currentEdges = pushed.currentEdges,
                     !.visited = pushed.visited,
                     !.frames = Append(SetTop(@, [Top(@) EXCEPT !.pc = "backtrack"]),
                                       Frame(nextNode, "entry", 0, pushed))]
  /\ UNCHANGED <<phase, expansion, app>>
  /\ UNCHANGED <<analysisVars, builderVars>>

\* Backtrack after the call has returned: pop, pop, delete, next edge
SearchBacktrack ==
  /\ Searching
  /\ Top(search.frames).pc = "backtrack"
  /\ search' = [search EXCEPT
                  !.currentPath = Pop(@),
                  !.currentEdges = Pop(@),
                  !.visited = VisitedDelete(@, SearchEdge.target),
                  !.frames = SetTop(@, [Top(@) EXCEPT !.pc = "loop", !.edge = NextEdge(@)])]
  /\ UNCHANGED <<phase, expansion, app>>
  /\ UNCHANGED <<analysisVars, builderVars>>

\* The outgoing edges are exhausted, the call returns
SearchEndLoop ==
  /\ Searching
  /\ Top(search.frames).pc = "loop"
  /\ Top(search.frames).edge
       > Len(Outgoing(SearchAdjacencyMap, Top(search.frames).currentNode))
  /\ search' = [search EXCEPT !.frames = Return(@)]
  /\ UNCHANGED <<phase, expansion, app>>
  /\ UNCHANGED <<analysisVars, builderVars>>

SearchStep ==
  \/ SearchFoundTarget \/ SearchLengthReached \/ SearchBeginLoop
  \/ SearchSkipVisited \/ SearchDescend \/ SearchBacktrack \/ SearchEndLoop

\* An analyzeImpact run: the source it stands at, whether it is between
\* sources ("source"), inside a findIndirectImpacts call ("layer") or has
\* returned ("done"), the arrays and the set of ImpactState, and the
\* arguments of the findIndirectImpacts call
Expansion(pc, source, st, currentLayer, currentDepth, currentPath) ==
  [pc |-> pc, source |-> source, st |-> st, currentLayer |-> currentLayer,
   currentDepth |-> currentDepth, currentPath |-> currentPath]

\* analyzeImpact up to its loop over the sources
FirstSource(sources) ==
  Expansion("source", 1, ImpactState(<<>>, <<>>, Range(sources), <<>>),
            <<>>, 0, <<>>)

ExpansionAdjacencyMap == buildAdjacencyMap(dataset)

AtSource ==
  /\ phase = "expansion"
  /\ expansion.pc = "source"
  /\ expansion.source <= Len(sourceIds)

InLayer == phase = "expansion" /\ expansion.pc = "layer"

\* The next source, with the arrays as the call left them
NextSource(st) ==
  Expansion("source", expansion.source + 1, st, <<>>, 0, <<>>)

\* if (!adjacencyMap[sourceId]) continue
ImpactSkipSource ==
  /\ AtSource
  /\ sourceIds[expansion.source] \notin DOMAIN ExpansionAdjacencyMap
  /\ expansion' = NextSource(expansion.st)
  /\ UNCHANGED <<phase, search, app>>
  /\ UNCHANGED <<analysisVars, builderVars>>

\* The direct neighbours of the source, then the first findIndirectImpacts call
ImpactDirect ==
  /\ AtSource
  /\ sourceIds[expansion.source] \in DOMAIN ExpansionAdjacencyMap
  /\ LET sourceId == sourceIds[expansion.source]
         directNeighbors == Outgoing(ExpansionAdjacencyMap, sourceId)
     IN expansion' = Expansion("layer", expansion.source,
                               DirectLoop(directNeighbors, 1, expansion.st),
                               Targets(directNeighbors), 1, <<sourceId>>)
  /\ UNCHANGED <<phase, search, app>>
  /\ UNCHANGED <<analysisVars, builderVars>>

\* if (currentDepth >= maxDepth) return
ImpactDepthReached ==
  /\ InLayer
  /\ MaxDepthReached(expansion.currentDepth, maxParam)
  /\ expansion' = NextSource(expansion.st)
  /\ UNCHANGED <<phase, search, app>>
  /\ UNCHANGED <<analysisVars, builderVars>>

\* The layer the call processes: the arrays after it, and the next layer
ExpandedLayer ==
  LayerLoop(ExpansionAdjacencyMap, expansion.currentLayer, 1,
            expansion.currentPath, [st |-> expansion.st, nextLayer |-> <<>>])

\* The layer is processed and the next layer is not empty: the recursive call
ImpactNextLayer ==
  /\ InLayer
  /\ ~MaxDepthReached(expansion.currentDepth, maxParam)
  /\ Len(ExpandedLayer.nextLayer) > 0
  /\ expansion' = Expansion("layer", expansion.source, ExpandedLayer.st,
                            ExpandedLayer.nextLayer,
                            NextDepth(expansion.currentDepth),
                            expansion.currentPath \o expansion.currentLayer)
  /\ UNCHANGED <<phase, search, app>>
  /\ UNCHANGED <<analysisVars, builderVars>>

\* The layer is processed and the next layer is empty: the calls return
ImpactLastLayer ==
  /\ InLayer
  /\ ~MaxDepthReached(expansion.currentDepth, maxParam)
  /\ Len(ExpandedLayer.nextLayer) = 0
  /\ expansion' = NextSource(ExpandedLayer.st)
  /\ UNCHANGED <<phase, search, app>>
  /\ UNCHANGED <<analysisVars, builderVars>>

\* The sources are exhausted: analyzeImpact returns
ImpactReturn ==
  /\ phase = "expansion"
  /\ expansion.pc = "source"
  /\ expansion.source > Len(sourceIds)
  /\ expansion' = [expansion EXCEPT !.pc = "done"]
  /\ UNCHANGED <<phase, search, app>>
  /\ UNCHANGED <<analysisVars, builderVars>>

ExpansionStep ==
  \/ ImpactSkipSource \/ ImpactDirect \/ ImpactDepthReached
  \/ ImpactNextLayer \/ ImpactLastLayer \/ ImpactReturn

\* The searches findPaths starts: from an entity to another entity
SearchPairs == {p \in NodeIds \X NodeIds : p[1] # p[2]}

\* The datasets of the call-by-call runs: three entities, and up to MaxEdges
\* relationships among them, cycles, self-loops and parallel edges included
StepDatasets ==
  {GraphDataset(<<"1", "2", "3">>, pairs) :
     pairs \in SeqsUpTo(NodeIds \X NodeIds, MaxEdges)}

\* The sources of the expansion runs: one, two, and an id that is no entity
StepSourceSelections == {<<"1">>, <<"1", "2">>, <<"4", "1">>}

\* A findAllPaths call findPaths has just made for a pair of distinct nodes
\* of the index, or analyzeImpact at its loop over the sources
InitSteps ==
  /\ dataset \in StepDatasets
  /\ \/ /\ phase = "search"
        /\ \E p \in SearchPairs :
             /\ p[1] \in DOMAIN SearchAdjacencyMap
             /\ p[2] \in DOMAIN SearchAdjacencyMap
             /\ sourceIds = <<p[1]>> /\ targetIds = <<p[2]>>
             /\ search = FirstCall(p[1])
        /\ maxParam \in {1, MaxLen}
        /\ expansion = NoExpansion
     \/ /\ phase = "expansion"
        /\ sourceIds \in StepSourceSelections
        /\ targetIds = <<>>
        /\ maxParam \in {1, MaxDepth}
        /\ expansion = FirstSource(sourceIds)
        /\ search = NoSearch
  /\ targetTypes = <<>>
  /\ pathResult = NoPathResult
  /\ impactResult = NoImpactResult
  /\ filtered = NoDataset
  /\ app = NoApp
  /\ BuilderIdle

NextSteps == SearchStep \/ ExpansionStep

\* Every call that has been made goes on running
SpecSteps == InitSteps /\ [][NextSteps]_vars /\ WF_vars(NextSteps)

-----------------------------------------------------------------------------
(* The application: the state of main.ts and of its components, one action  *)
(* per event handler                                                        *)

\* A value that may be null: null, or a reference to a value
NullRef == <<>>
Ref(value) == <<value>>
Deref(ref) == ref[1]

\* { entities: [], relationships: [] }
EmptyDataset == [entities |-> <<>>, relationships |-> <<>>]

\* maxDepth of the filterDataset call
FilterMaxDepth == 10

\* The module state of main.ts (lines 28-33), the dataset fields of the graph
\* viewer, the analysis tools and the settings panel, the selection of the
\* analysis tools, and the data of the configuration panel, after the page
\* has loaded
AppLoaded ==
  [loaded           |-> TRUE,
   currentRawData   |-> NullRef,
   currentMapping   |-> NullRef,
   currentDataset   |-> NullRef,
   selectedNodes    |-> <<>>,
   isAdvancedMode   |-> FALSE,
   filteredDataset  |-> NullRef,
   viewerDataset    |-> NullRef,
   analysisDataset  |-> NullRef,
   analysisSelectedNodes |-> <<>>,
   settingsDataset  |-> NullRef,
   configData       |-> NullRef]

\* graphViewer.clear()
ViewerClear(a) == [a EXCEPT !.viewerDataset = NullRef]

\* graphViewer.loadDataset(dataset)
ViewerLoadDataset(a, ds) == [ViewerClear(a) EXCEPT !.viewerDataset = Ref(ds)]

\* analysisTools.setDataset(dataset)
AnalysisSetDataset(a, ds) ==
  [a EXCEPT !.analysisDataset = Ref(ds), !.analysisSelectedNodes = <<>>]

\* analysisTools.setSelectedNodes(nodeIds)
AnalysisSetSelectedNodes(a, nodeIds) == [a EXCEPT !.analysisSelectedNodes = nodeIds]

\* graphSettingsPanel.setDataset(dataset)
SettingsSetDataset(a, ds) == [a EXCEPT !.settingsDataset = Ref(ds)]

\* The handlers: each maps the application state to the state it leaves

\* advancedImport.onDatasetLoaded
onDatasetLoaded(a, ds) ==
  LET held    == [a EXCEPT !.currentDataset = Ref(ds), !.filteredDataset = Ref(ds)]
      shown   == ViewerLoadDataset(SettingsSetDataset(held, ds), ds)
      offered == AnalysisSetDataset(shown, ds)
  IN AnalysisSetSelectedNodes([offered EXCEPT !.selectedNodes = <<>>], <<>>)

\* advancedImport.onFilterChange
onFilterChange(a, sources, targets) ==
  LET filteredDataset ==
        IF Len(sources) = 0 THEN Deref(a.currentDataset)
        ELSE filterDataset(Deref(a.currentDataset), sources, targets, FilterMaxDepth)
      held  == [a EXCEPT !.filteredDataset = Ref(filteredDataset)]
      shown == ViewerLoadDataset(SettingsSetDataset(held, filteredDataset),
                                 filteredDataset)
  IN IF a.currentDataset = NullRef THEN a
     ELSE AnalysisSetDataset(shown, filteredDataset)

\* fileUploadComponent.onDataLoaded
onDataLoaded(a, data) ==
  ViewerClear([a EXCEPT !.currentRawData = Ref(data),
                        !.configData = Ref(data),
                        !.currentDataset = NullRef])

\* configPanel.onConfigChange
onConfigChange(a, config) ==
  LET configured == [a EXCEPT !.currentMapping = Ref(config)]
      ds      == buildDataset(Deref(a.currentRawData), config)
      held    == [configured EXCEPT !.currentDataset = Ref(ds)]
      shown   == ViewerLoadDataset(SettingsSetDataset(held, ds), ds)
      offered == AnalysisSetDataset(shown, ds)
  IN IF a.currentRawData = NullRef THEN configured
     ELSE AnalysisSetSelectedNodes([offered EXCEPT !.selectedNodes = <<>>], <<>>)

\* graphViewer.onNodeSelection
onNodeSelection(a, nodeIds) ==
  AnalysisSetSelectedNodes([a EXCEPT !.selectedNodes = nodeIds], nodeIds)

\* graphSettingsPanel.onSettingsChange
onSettingsChange(a) ==
  IF a.currentDataset # NullRef
  THEN SettingsSetDataset(a, Deref(a.currentDataset))
  ELSE a

\* toggleModeUI(advanced), after the click handler has set isAdvancedMode
toggleModeUI(a, advanced) ==
  LET cleared == ViewerClear([a EXCEPT !.isAdvancedMode = advanced])
      reset   == [cleared EXCEPT !.currentRawData = NullRef,
                                 !.currentMapping = NullRef,
                                 !.currentDataset = NullRef,
                                 !.filteredDataset = NullRef,
                                 !.selectedNodes = <<>>]
  IN AnalysisSetSelectedNodes(
       AnalysisSetDataset(SettingsSetDataset(reset, EmptyDataset), EmptyDataset),
       <<>>)

\* The datasets the advanced import loads, the tables the file upload loads,
\* the mappings the configuration panel applies, and the filters and the
\* selections of the user
AppDatasets ==
  { GraphDataset(<<"1", "2", "3">>, << <<"1", "2">>, <<"2", "3">> >>),
    GraphDataset(<<"1", "2">>, << <<"1", "2">> >>) }
AppTables ==
  { << [id |-> Str("a"), ref |-> Str("b"), name |-> Str("x")] >>,
    << [id |-> Str("b"), ref |-> Str("a"), name |-> Str("x")] >> }
AppMappings ==
  { Mapping(<<ClassP, ClassQ>>, <<RelPQ>>), Mapping(<<ClassP>>, <<>>) }
AppFilterSources == {<<>>, <<"1">>, <<"2">>}
AppFilterTargets == {<<>>, <<"3">>}

InitApp ==
  /\ phase = "app"
  /\ app = AppLoaded
  /\ search = NoSearch
  /\ expansion = NoExpansion
  /\ AnalysisIdle
  /\ BuilderIdle

AppRunning == phase = "app"

appFrame == <<phase, search, expansion, analysisVars, builderVars>>

\* The advanced import component has loaded a dataset
OnDatasetLoaded ==
  /\ AppRunning /\ app.isAdvancedMode
  /\ \E ds \in AppDatasets : app' = onDatasetLoaded(app, ds)
  /\ UNCHANGED appFrame

\* The user has changed the filter of the advanced import component
OnFilterChange ==
  /\ AppRunning /\ app.isAdvancedMode
  /\ \E sources \in AppFilterSources, targets \in AppFilterTargets :
       app' = onFilterChange(app, sources, targets)
  /\ UNCHANGED appFrame

\* The file upload component has read a file
OnDataLoaded ==
  /\ AppRunning /\ ~app.isAdvancedMode
  /\ \E data \in AppTables : app' = onDataLoaded(app, data)
  /\ UNCHANGED appFrame

\* The user has applied a configuration
OnConfigChange ==
  /\ AppRunning /\ ~app.isAdvancedMode
  /\ \E config \in AppMappings : app' = onConfigChange(app, config)
  /\ UNCHANGED appFrame

\* The user has selected nodes of the graph shown, or none
OnNodeSelection ==
  /\ AppRunning /\ app.viewerDataset # NullRef
  /\ \E nodeIds \in {<<>>} \cup
                    {<<Deref(app.viewerDataset).entities[k].id>> :
                       k \in 1..Len(Deref(app.viewerDataset).entities)} :
       app' = onNodeSelection(app, nodeIds)
  /\ UNCHANGED appFrame

\* The user has changed a setting
OnSettingsChange ==
  /\ AppRunning
  /\ app' = onSettingsChange(app)
  /\ UNCHANGED appFrame

\* btn-standard-mode and btn-advanced-mode
ToggleMode ==
  /\ AppRunning
  /\ \E advanced \in BOOLEAN :
       /\ app.isAdvancedMode # advanced
       /\ app' = toggleModeUI(app, advanced)
  /\ UNCHANGED appFrame

\* btn-reset, confirmed: the state is reset and the page reloaded
Reset ==
  /\ AppRunning
  /\ app' = AppLoaded
  /\ UNCHANGED appFrame

NextApp ==
  \/ OnDatasetLoaded \/ OnFilterChange \/ OnDataLoaded \/ OnConfigChange
  \/ OnNodeSelection \/ OnSettingsChange \/ ToggleMode \/ Reset

SpecApp == InitApp /\ [][NextApp]_vars

-----------------------------------------------------------------------------
(* Properties of buildDataset *)

Built == phase \in {"built", "rebuilt"}

EntityIds(ds) == {ds.entities[k].id : k \in 1..Len(ds.entities)}

Ids(s) == [k \in 1..Len(s) |-> s[k].id]

\* A relationship definition and a row that name two present values
NamesEndpoints(def, row) ==
  ~EndpointMissing(EndpointValue(row, def.sourceColumn),
                   EndpointValue(row, def.targetColumn))

\* C1: every relationship of a built Dataset has a source id and a target id
\* that are both ids of entities of that Dataset.
C1_ReferentialIntegrity ==
  Built =>
    \A k \in 1..Len(built.relationships) :
      /\ built.relationships[k].source \in EntityIds(built)
      /\ built.relationships[k].target \in EntityIds(built)

\* A build that kept a relationship and dropped another whose source entity
\* exists and whose target entity was never emitted
C1_Witness ==
  /\ phase = "built"
  /\ Len(built.relationships) >= 1
  /\ \E d \in 1..Len(mapping.relationships), i \in 1..Len(rawData) :
       LET def == mapping.relationships[d]
           row == rawData[i]
       IN /\ NamesEndpoints(def, row)
          /\ FullEntityId(def.sourceClass, EndpointValue(row, def.sourceColumn))
               \in EntityIds(built)
          /\ FullEntityId(def.targetClass, EndpointValue(row, def.targetColumn))
               \notin EntityIds(built)

\* C2: buildDataset never emits a relationship whose source equals its
\* target, also for a definition whose two classes and two columns coincide.
C2_NoSelfLoops ==
  Built =>
    \A k \in 1..Len(built.relationships) :
      built.relationships[k].source # built.relationships[k].target

\* A build under a definition with sourceClass = targetClass and
\* sourceColumn = targetColumn, over a row whose entity was emitted
C2_Witness ==
  /\ phase = "built"
  /\ \E d \in 1..Len(mapping.relationships), i \in 1..Len(rawData) :
       LET def == mapping.relationships[d]
           row == rawData[i]
       IN /\ def.sourceClass = def.targetClass
          /\ def.sourceColumn = def.targetColumn
          /\ NamesEndpoints(def, row)
          /\ FullEntityId(def.sourceClass, EndpointValue(row, def.sourceColumn))
               \in EntityIds(built)

\* C3: a built Dataset has pairwise distinct entity ids and pairwise distinct
\* relationship ids, and building again after appending a copy of a row
\* already in the table yields the same entities and the same relationships,
\* in the same order.
C3_DedupInvariant ==
  /\ [](Built => NoDup(Ids(built.entities)) /\ NoDup(Ids(built.relationships)))
  /\ [][phase' = "rebuilt" => built' = built]_vars

\* A rebuild, after a repeated row, of a Dataset with entities and a
\* relationship
C3_Witness ==
  /\ phase = "rebuilt"
  /\ Len(built.entities) >= 2
  /\ Len(built.relationships) >= 1

\* The (class, row) pairs, as indexes, that produce the full entity id
Producers(rows, m, id) ==
  {p \in (1..Len(m.classes)) \X (1..Len(rows)) :
     LET value == String(Cell(rows[p[2]], m.classes[p[1]].sourceColumn))
     IN /\ value \notin {"", "undefined", "null"}
        /\ m.classes[p[1]].id \o ":" \o value = id}

\* The first of them: classes in mapping order, then rows in input order
FirstProducer(P) ==
  CHOOSE p \in P : \A q \in P : p[1] < q[1] \/ (p[1] = q[1] /\ p[2] <= q[2])

ProducedIds(rows, m) ==
  {m.classes[c].id \o ":" \o String(Cell(rows[i], m.classes[c].sourceColumn)) :
     c \in 1..Len(m.classes), i \in 1..Len(rows)}

\* C4: when several rows produce the same full entity id, exactly one entity
\* has that id, and its type, label and metadata are those of the first such
\* row in input order, for the first class in mapping order that emits it.
C4_FirstOccurrenceWins ==
  Built =>
    \A id \in ProducedIds(rawData, mapping) :
      LET P == Producers(rawData, mapping, id)
      IN P # {} =>
           LET first == FirstProducer(P)
               class == mapping.classes[first[1]]
               row   == rawData[first[2]]
               value == String(Cell(row, class.sourceColumn))
               label == IF Cell(row, class.labelColumn) \in {Undefined, Null}
                        THEN value ELSE String(Cell(row, class.labelColumn))
           IN /\ Cardinality({k \in 1..Len(built.entities) :
                                built.entities[k].id = id}) = 1
              /\ \A k \in 1..Len(built.entities) :
                   built.entities[k].id = id =>
                     /\ built.entities[k].type = class.id
                     /\ built.entities[k].label = label
                     /\ \A col \in Range(class.metadataColumns) :
                          IF Cell(row, col) = Undefined
                          THEN col \notin DOMAIN built.entities[k].metadata
                          ELSE /\ col \in DOMAIN built.entities[k].metadata
                               /\ built.entities[k].metadata[col] = Cell(row, col)

\* Two rows with the same id and different names, under a class that reads
\* the id and the name: the entity carries the first row's name
C4_Witness ==
  /\ phase = "built"
  /\ Len(rawData) = 2
  /\ rawData[1].id = rawData[2].id
  /\ rawData[1].id # Null
  /\ rawData[1].name = Str("x")
  /\ rawData[2].name = Str("")
  /\ mapping.classes[1] = ClassP
  /\ Len(built.entities) >= 1
  /\ built.entities[1].label = "x"

-----------------------------------------------------------------------------
(* Properties of findPaths *)

Returned == phase = "findPaths"

First(s) == s[1]
Last(s)  == s[Len(s)]

\* C5: every path returned by findPaths contains no node id twice, and its
\* edges list is exactly one element shorter than its nodes list, on graphs
\* with cycles, parallel edges and self-loops too.
C5_PathsAreSimple ==
  Returned =>
    \A k \in 1..Len(pathResult.paths) :
      /\ NoDup(pathResult.paths[k].nodes)
      /\ Len(pathResult.paths[k].edges) = Len(pathResult.paths[k].nodes) - 1

\* A three-node path returned from a graph in which a relationship leads
\* back from a node of the path to the path's first node (a cycle or a
\* self-loop)
C5_Witness ==
  /\ Returned
  /\ \E k \in 1..Len(pathResult.paths) :
       LET nodes == pathResult.paths[k].nodes
       IN /\ Len(nodes) = 3
          /\ \E i \in 1..Len(dataset.relationships) :
               /\ dataset.relationships[i].source \in {nodes[1], nodes[2]}
               /\ dataset.relationships[i].target = nodes[1]

\* C6: every path p returned by findPaths with maxLength = L has
\* p.nodes.length <= L, for L = 0 and L = 1 too.
C6_PathLengthBound ==
  Returned =>
    \A k \in 1..Len(pathResult.paths) :
      Len(pathResult.paths[k].nodes) <= maxParam

\* A call that returned a path of exactly maxLength nodes and that a larger
\* maxLength would have given more paths
C6_Witness ==
  /\ Returned
  /\ \E k \in 1..Len(pathResult.paths) :
       Len(pathResult.paths[k].nodes) = maxParam
  /\ Len(findPaths(dataset, sourceIds, targetIds, maxParam + 1).paths)
       > Len(pathResult.paths)

\* The nodes along a sequence of relationships (given by their positions in
\* the dataset) that starts at s
NodesAlong(ds, s, es) ==
  <<s>> \o [i \in 1..Len(es) |-> ds.relationships[es[i]].target]

EdgeIdsAlong(ds, es) == [i \in 1..Len(es) |-> ds.relationships[es[i]].id]

\* es is a simple directed path of the dataset's graph from s to t
IsSimplePath(ds, s, t, es) ==
  /\ Len(es) >= 1
  /\ ds.relationships[es[1]].source = s
  /\ \A i \in 1..(Len(es) - 1) :
       ds.relationships[es[i]].target = ds.relationships[es[i + 1]].source
  /\ ds.relationships[es[Len(es)]].target = t
  /\ NoDup(NodesAlong(ds, s, es))
  /\ Range(NodesAlong(ds, s, es)) \subseteq EntityIds(ds)

\* All simple directed paths from s to t with at most L nodes
SimplePaths(ds, s, t, L) ==
  {es \in SeqsUpTo(1..Len(ds.relationships), Min(L - 1, Len(ds.entities) - 1)) :
     IsSimplePath(ds, s, t, es)}

\* The (source, target) pairs findPaths searches
SearchedPairs ==
  {p \in Range(sourceIds) \X Range(targetIds) :
     /\ p[1] # p[2]
     /\ p[1] \in EntityIds(dataset)
     /\ p[2] \in EntityIds(dataset)}

\* C7: for duplicate-free sourceIds and targetIds, findPaths returns exactly,
\* once each, the simple directed paths from a source s to a target t with
\* s # t, both entities of the dataset, that have at most maxLength nodes.
C7_PathsExact ==
  (Returned /\ NoDup(sourceIds) /\ NoDup(targetIds)) =>
    LET paths == pathResult.paths
    IN /\ \A k \in 1..Len(paths) :
            \E p \in SearchedPairs :
              \E es \in SimplePaths(dataset, p[1], p[2], maxParam) :
                /\ paths[k].nodes = NodesAlong(dataset, p[1], es)
                /\ paths[k].edges = EdgeIdsAlong(dataset, es)
       /\ \A p \in SearchedPairs :
            \A es \in SimplePaths(dataset, p[1], p[2], maxParam) :
              Cardinality({k \in 1..Len(paths) :
                             /\ paths[k].nodes = NodesAlong(dataset, p[1], es)
                             /\ paths[k].edges = EdgeIdsAlong(dataset, es)}) = 1
       /\ pathResult.metrics.totalPaths = Len(paths)
       /\ \A k \in 1..Len(paths) :
            /\ pathResult.metrics.shortestPathLength <= Len(paths[k].nodes)
            /\ pathResult.metrics.longestPathLength >= Len(paths[k].nodes)

\* Entities 1, 2, 3 with relationships 1 -> 2 and 2 -> 3: findPaths from 1 to
\* 3 returns the one path [1, 2, 3], and the metrics are 1, 3 and 3
C7_Witness ==
  /\ Returned
  /\ dataset = GraphDataset(<<"1", "2", "3">>, << <<"1", "2">>, <<"2", "3">> >>)
  /\ sourceIds = <<"1">>
  /\ targetIds = <<"3">>
  /\ maxParam = 3
  /\ pathResult =
       [paths |-> << [nodes |-> <<"1", "2", "3">>,
                      edges |-> <<"edge_0", "edge_1">>,
                      metadata |-> [length |-> 3, hops |-> 2]] >>,
        metrics |-> [totalPaths |-> 1, shortestPathLength |-> 3,
                     longestPathLength |-> 3]]

\* C8: a (source, target) pair with source = target is skipped: no returned
\* path has its first node equal to its last node, and when every pair is
\* identical the result is paths = [] with all three metrics 0, even if the
\* graph has a cycle through the node.
C8_IdenticalPairSkipped ==
  Returned =>
    /\ \A k \in 1..Len(pathResult.paths) :
         First(pathResult.paths[k].nodes) # Last(pathResult.paths[k].nodes)
    /\ (\A s \in Range(sourceIds), t \in Range(targetIds) : s = t) =>
         pathResult = NoPathResult

\* findPaths(ds, ["1"], ["1"], 3) on a graph with the cycle 1 -> 2 -> 1
C8_Witness ==
  /\ Returned
  /\ sourceIds = <<"1">>
  /\ targetIds = <<"1">>
  /\ maxParam = 3
  /\ \E i, j \in 1..Len(dataset.relationships) :
       /\ dataset.relationships[i].source = "1"
       /\ dataset.relationships[i].target = "2"
       /\ dataset.relationships[j].source = "2"
       /\ dataset.relationships[j].target = "1"
  /\ pathResult.paths = <<>>

-----------------------------------------------------------------------------
(* Properties of analyzeImpact *)

Analyzed == phase = "analyzeImpact"

\* C9: directImpact and indirectImpact are disjoint, neither contains an
\* element of sourceIds, and no id occurs twice within either list.
C9_ImpactDisjoint ==
  Analyzed =>
    /\ Range(impactResult.directImpact) \cap Range(impactResult.indirectImpact) = {}
    /\ Range(impactResult.directImpact) \cap Range(sourceIds) = {}
    /\ Range(impactResult.indirectImpact) \cap Range(sourceIds) = {}
    /\ NoDup(impactResult.directImpact)
    /\ NoDup(impactResult.indirectImpact)

\* An analysis with a direct and an indirect impact on a graph where the
\* indirectly impacted node leads back to a source and to the direct one
C9_Witness ==
  /\ Analyzed
  /\ Len(impactResult.directImpact) >= 1
  /\ Len(impactResult.indirectImpact) >= 1
  /\ \E i \in 1..Len(dataset.relationships) :
       /\ dataset.relationships[i].source \in Range(impactResult.indirectImpact)
       /\ dataset.relationships[i].target \in Range(sourceIds)

\* C10: a source node with more than 5 outgoing edges is flagged as critical:
\* for node 1 with 6 outgoing edges to the leaves 2 .. 7,
\* analyzeImpact(ds, [1], 5) returns directImpact = [2,3,4,5,6,7],
\* indirectImpact = [] and metrics.criticalPaths >= 1.
C10_SourceFanOutFlagged ==
  (Analyzed /\ dataset = FanOutDataset /\ sourceIds = <<"1">>
     /\ maxParam = DefaultMaxDepth) =>
    /\ impactResult.directImpact = <<"2", "3", "4", "5", "6", "7">>
    /\ impactResult.indirectImpact = <<>>
    /\ impactResult.metrics.criticalPaths >= 1

-----------------------------------------------------------------------------
(* Properties of GraphFilterService *)

UniqueIds(ds) == NoDup(Ids(ds.entities)) /\ NoDup(Ids(ds.relationships))

\* Every relationship of ds has both endpoints among the entities of ds
EndpointsAmongEntities(ds) ==
  \A k \in 1..Len(ds.relationships) :
    /\ ds.relationships[k].source \in EntityIds(ds)
    /\ ds.relationships[k].target \in EntityIds(ds)

\* The entities and the relationships of sub are entities and relationships
\* of ds
SubDataset(sub, ds) ==
  /\ Range(sub.entities) \subseteq Range(ds.entities)
  /\ Range(sub.relationships) \subseteq Range(ds.relationships)

JoiningEntities(ds) ==
  {r \in Range(ds.relationships) :
     r.source \in EntityIds(ds) /\ r.target \in EntityIds(ds)}

\* The ids a forward path of at most d relationships leads to from an id
\* of from (the ids of from are at distance 0)
RECURSIVE ForwardWithin(_, _, _)
ForwardWithin(ds, from, d) ==
  IF d = 0 THEN from
  ELSE ForwardWithin(ds,
         from \cup {r.target : r \in {q \in JoiningEntities(ds) : q.source \in from}},
         d - 1)

\* The entities of ds within d relationships of a source, and the
\* relationships of ds between two of them
ReachableSubgraph(ds, sources, d) ==
  LET reached == ForwardWithin(ds, Range(sources), d) \cap EntityIds(ds)
  IN [entities      |-> {e \in Range(ds.entities) : e.id \in reached},
      relationships |-> {r \in Range(ds.relationships) :
                           r.source \in reached /\ r.target \in reached}]

ReturnsReachableSubgraph ==
  /\ Range(filtered.entities) = ReachableSubgraph(dataset, sourceIds, maxParam).entities
  /\ Range(filtered.relationships) =
       ReachableSubgraph(dataset, sourceIds, maxParam).relationships

\* C12 as stated: for every sourceIds list and every maxDepth >= 0,
\* extractReachableSubgraph returns exactly the entities within maxDepth
\* forward relationships of some source, and exactly the relationships
\* whose two endpoints are both among them.
C12_ReachableExactAlways ==
  phase = "extractReachableSubgraph" => ReturnsReachableSubgraph

\* C12 amended: for every non-empty sourceIds list, every maxDepth >= 0 and
\* every dataset whose relationships all have both endpoints among its
\* entities, extractReachableSubgraph returns exactly the entities within
\* maxDepth forward relationships of some source, and exactly the
\* relationships whose two endpoints are both among them; with an empty
\* sourceIds list it returns the dataset unchanged.
C12_ReachableExact ==
  phase = "extractReachableSubgraph" =>
    /\ Len(sourceIds) > 0 /\ EndpointsAmongEntities(dataset) =>
         ReturnsReachableSubgraph
    /\ Len(sourceIds) = 0 => filtered = dataset

\* A call that returns an entity that is no source and leaves out an
\* entity that lies beyond maxDepth and has a relationship into a returned
\* entity
C12_Witness ==
  /\ phase = "extractReachableSubgraph"
  /\ Len(sourceIds) > 0 /\ EndpointsAmongEntities(dataset)
  /\ EntityIds(filtered) \ Range(sourceIds) # {}
  /\ \E e \in EntityIds(dataset) \ EntityIds(filtered) :
       /\ e \in ForwardWithin(dataset, Range(sourceIds), maxParam + 1)
       /\ \E r \in Range(dataset.relationships) :
            r.source = e /\ r.target \in EntityIds(filtered)


\* T: the ids of the entities whose type is one of targetTypes, in the
\* order of the entities
IdsWithTypeIn(ds, types) ==
  LET ofType == {k \in 1..Len(ds.entities) : ds.entities[k].type \in Range(types)}
      RECURSIVE From(_)
      From(k) ==
        IF k > Len(ds.entities) THEN <<>>
        ELSE IF k \in ofType THEN <<ds.entities[k].id>> \o From(k + 1)
        ELSE From(k + 1)
  IN From(1)

\* C13 as stated: for every input, empty sourceIds, empty targetTypes and
\* targetTypes matching no entity included, filterByNodeTypes(ds,
\* sourceIds, targetTypes, d) returns the dataset that filterDataset(ds,
\* sourceIds, T, d) returns, T being the ids of the entities whose type is
\* in targetTypes.
C13_TypesDelegateAlways ==
  phase = "filterByNodeTypes" =>
    filtered = filterDataset(dataset, sourceIds,
                             IdsWithTypeIn(dataset, targetTypes), maxParam)

\* C13 amended: whenever targetTypes is not empty or sourceIds is empty,
\* targetTypes matching no entity included, filterByNodeTypes(ds,
\* sourceIds, targetTypes, d) returns the dataset that filterDataset(ds,
\* sourceIds, T, d) returns; with empty targetTypes it returns ds unchanged,
\* whatever sourceIds is.
C13_TypesDelegate ==
  phase = "filterByNodeTypes" =>
    /\ Len(targetTypes) > 0 \/ Len(sourceIds) = 0 =>
         filtered = filterDataset(dataset, sourceIds,
                                  IdsWithTypeIn(dataset, targetTypes), maxParam)
    /\ Len(targetTypes) = 0 => filtered = dataset

\* A call with sources and a type that some entities have, which drops an
\* entity and keeps a relationship
C13_Witness ==
  /\ phase = "filterByNodeTypes"
  /\ Len(sourceIds) > 0
  /\ Len(IdsWithTypeIn(dataset, targetTypes)) > 0
  /\ Len(filtered.entities) < Len(dataset.entities)
  /\ Len(filtered.relationships) > 0


-----------------------------------------------------------------------------
(* Skip-and-continue in buildDataset *)

\* No row of the table has the column
NoRowHas(rows, column) == \A i \in 1..Len(rows) : Cell(rows[i], column) = Undefined

\* s without its k-th element
Without(s, k) == SubSeq(s, 1, k - 1) \o SubSeq(s, k + 1, Len(s))

IsDataset(ds) ==
  /\ \A k \in 1..Len(ds.entities) :
       DOMAIN ds.entities[k] = {"id", "type", "label", "metadata"}
  /\ \A k \in 1..Len(ds.relationships) :
       DOMAIN ds.relationships[k] = {"id", "source", "target", "type", "metadata"}

\* The full ids a definition gives the endpoints of a row
SourceFullId(def, row) ==
  FullEntityId(def.sourceClass, EndpointValue(row, def.sourceColumn))
TargetFullId(def, row) ==
  FullEntityId(def.targetClass, EndpointValue(row, def.targetColumn))

\* C14: buildDataset returns a Dataset for any rows and mapping; a class
\* definition whose id column no row has, and a relationship definition
\* whose source or target column no row has, contribute nothing (the
\* dataset is the one built without the definition); a row whose source or
\* target full id was never emitted as an entity yields no relationship
\* between these ids, and every row of every definition that names two
\* distinct emitted entities has its relationship id in the dataset.
C14_SkipAndContinue ==
  Built =>
    /\ IsDataset(built)
    /\ \A c \in 1..Len(mapping.classes) :
         NoRowHas(rawData, mapping.classes[c].sourceColumn) =>
           built = buildDataset(rawData,
                     [mapping EXCEPT !.classes = Without(@, c)])
    /\ \A d \in 1..Len(mapping.relationships) :
         \/ NoRowHas(rawData, mapping.relationships[d].sourceColumn)
         \/ NoRowHas(rawData, mapping.relationships[d].targetColumn)
         => built = buildDataset(rawData,
                      [mapping EXCEPT !.relationships = Without(@, d)])
    /\ \A d \in 1..Len(mapping.relationships), i \in 1..Len(rawData) :
         LET def == mapping.relationships[d]
             row == rawData[i]
         IN NamesEndpoints(def, row) =>
              IF \/ SourceFullId(def, row) \notin EntityIds(built)
                 \/ TargetFullId(def, row) \notin EntityIds(built)
              THEN \A k \in 1..Len(built.relationships) :
                     \/ built.relationships[k].source # SourceFullId(def, row)
                     \/ built.relationships[k].target # TargetFullId(def, row)
              ELSE SourceFullId(def, row) # TargetFullId(def, row) =>
                     RelationshipId(def.id, EndpointValue(row, def.sourceColumn),
                                    EndpointValue(row, def.targetColumn))
                       \in Range(Ids(built.relationships))

\* A table with rows, a class and a relationship definition on a column no
\* row has, a first row whose target was never emitted, and a second row
\* of the same definition that yields a relationship
C14_Witness ==
  /\ phase = "built"
  /\ Len(rawData) = 2
  /\ \E c \in 1..Len(mapping.classes) :
       NoRowHas(rawData, mapping.classes[c].sourceColumn)
  /\ \E d \in 1..Len(mapping.relationships) :
       NoRowHas(rawData, mapping.relationships[d].targetColumn)
  /\ \E d \in 1..Len(mapping.relationships) :
       LET def == mapping.relationships[d]
       IN /\ NamesEndpoints(def, rawData[1])
          /\ TargetFullId(def, rawData[1]) \notin EntityIds(built)
          /\ NamesEndpoints(def, rawData[2])
          /\ \E k \in 1..Len(built.relationships) :
               /\ built.relationships[k].source = SourceFullId(def, rawData[2])
               /\ built.relationships[k].target = TargetFullId(def, rawData[2])


-----------------------------------------------------------------------------
(* Properties of analyzeImpact, continued *)

\* The entities a relationship leads to from an entity of sources
OutgoingNeighbours(ds, sources) ==
  {r.target : r \in {q \in JoiningEntities(ds) : q.source \in Range(sources)}}

\* C15: every entity that is the target of an outgoing relationship of some
\* source and is not itself in sourceIds appears in directImpact and not in
\* indirectImpact, whatever the order of sourceIds.
C15_DirectMerged ==
  Analyzed =>
    \A e \in OutgoingNeighbours(dataset, sourceIds) \ Range(sourceIds) :
      /\ e \in Range(impactResult.directImpact)
      /\ e \notin Range(impactResult.indirectImpact)

\* C16: for maxDepth >= 1, every entity not in sourceIds within maxDepth
\* forward relationships of some source appears in directImpact or in
\* indirectImpact.
C16_ImpactComplete ==
  Analyzed /\ maxParam >= 1 =>
    (ForwardWithin(dataset, Range(sourceIds), maxParam) \cap EntityIds(dataset))
        \ Range(sourceIds)
      \subseteq Range(impactResult.directImpact)
                  \cup Range(impactResult.indirectImpact)


\* The ids, entities or not, a relationship leads to from an entity of
\* sources
OutgoingTargets(ds, sources) ==
  {r.target : r \in {q \in Range(ds.relationships) :
                       q.source \in Range(sources) \cap EntityIds(ds)}}

\* C17: with maxDepth = 1 indirectImpact is empty, and directImpact holds
\* every entity that is an outgoing neighbour of a source and no source
\* itself, and nothing but targets of outgoing relationships of the sources
\* that are no sources.
C17_DepthOneDirectOnly ==
  Analyzed /\ maxParam = 1 =>
    /\ impactResult.indirectImpact = <<>>
    /\ OutgoingNeighbours(dataset, sourceIds) \ Range(sourceIds)
         \subseteq Range(impactResult.directImpact)
    /\ Range(impactResult.directImpact)
         \subseteq OutgoingTargets(dataset, sourceIds) \ Range(sourceIds)

\* A call with maxDepth = 1 on a dataset where a direct neighbour of a
\* source leads on to an entity that is then not reported
C17_Witness ==
  /\ Analyzed /\ maxParam = 1
  /\ Len(impactResult.directImpact) > 0
  /\ \E e \in EntityIds(dataset) \ Range(sourceIds) :
       /\ e \notin Range(impactResult.directImpact)
       /\ e \in OutgoingNeighbours(dataset, impactResult.directImpact)

\* The nodes of the chain from its m-th to its n-th
ChainNodes(m, n) == [k \in 1..(n - m + 1) |-> ToString(m + k - 1)]

\* C18 as stated: on the chain 1 -> 2 -> 3 -> ..., analyzeImpact(ds, [1], D)
\* for D >= 1 reports node 2 in directImpact and the nodes 3 .. D + 2, those
\* at hop distance 2 .. D + 1, in indirectImpact.
C18_DirectLayerFree ==
  Analyzed /\ dataset = ChainDataset /\ sourceIds = <<"1">> /\ maxParam >= 1 =>
    /\ impactResult.directImpact = <<"2">>
    /\ impactResult.indirectImpact = ChainNodes(3, maxParam + 2)

\* C18 amended: on the chain 1 -> 2 -> 3 -> ..., analyzeImpact(ds, [1], D)
\* for D >= 1 reports node 2 in directImpact and the nodes 3 .. D + 1, those
\* at hop distance 2 .. D, in indirectImpact; the node at hop distance D + 1
\* is not reported.
C18_DirectLayerCounts ==
  Analyzed /\ dataset = ChainDataset /\ sourceIds = <<"1">> /\ maxParam >= 1 =>
    /\ impactResult.directImpact = <<"2">>
    /\ impactResult.indirectImpact = ChainNodes(3, maxParam + 1)
    /\ ToString(maxParam + 2) \in EntityIds(dataset)
    /\ ToString(maxParam + 2) \notin Range(impactResult.indirectImpact)

\* The chain analysed with the largest maxDepth drawn: indirect impact is
\* reported and the chain goes on beyond it
C18_Witness ==
  /\ Analyzed /\ dataset = ChainDataset /\ sourceIds = <<"1">>
  /\ maxParam = MaxDepth
  /\ Len(impactResult.indirectImpact) = MaxDepth - 1
  /\ Len(dataset.entities) > Len(impactResult.indirectImpact) + 2


\* The number of relationships going out of an entity
FanOut(ds, id) ==
  Cardinality({k \in 1..Len(ds.relationships) : ds.relationships[k].source = id})

\* The entities k hops from the source s: its outgoing neighbours for
\* k = 1, and beyond that the entities first reached by a forward path of
\* k relationships
HopLayer(ds, s, k) ==
  IF k = 1 THEN OutgoingNeighbours(ds, <<s>>)
  ELSE (ForwardWithin(ds, {s}, k) \ ForwardWithin(ds, {s}, k - 1))
         \cap EntityIds(ds)

\* The hop counts at which analyzeImpact(ds, <<s>>, maxDepth) meets an
\* entity with more than CriticalFanOut outgoing relationships: the layers
\* 1 .. maxDepth - 1 are the ones it expands
CriticalHops(ds, s, maxDepth) ==
  {k \in 1..(maxDepth - 1) :
     \E id \in HopLayer(ds, s, k) : FanOut(ds, id) > CriticalFanOut}

Largest(S) == IF S = {} THEN 0 ELSE CHOOSE n \in S : \A m \in S : n >= m

\* C19: metrics.maxDepth never exceeds the maxDepth parameter, is 0 when no
\* node was flagged, and for a call with one source equals the largest
\* number of hops from the source at which a node with more than 5 outgoing
\* relationships was flagged.
C19_MaxDepthIsCriticalDepth ==
  Analyzed =>
    /\ impactResult.metrics.maxDepth <= maxParam
    /\ impactResult.metrics.criticalPaths = 0 => impactResult.metrics.maxDepth = 0
    /\ Len(sourceIds) = 1 /\ sourceIds[1] \in EntityIds(dataset) =>
         impactResult.metrics.maxDepth =
           Largest(CriticalHops(dataset, sourceIds[1], maxParam))

\* C20: the adjacency index has one record per entity; a relationship with
\* an endpoint that is no entity is in no outgoing and no incoming list, so
\* every target of an outgoing entry and every source of an incoming entry
\* is a key of the index; and analyzeImpact reports entities only.
C20_IndexNamesEntitiesOnly ==
  Analyzed =>
    LET adjacencyMap == buildAdjacencyMap(dataset)
    IN /\ DOMAIN adjacencyMap = EntityIds(dataset)
       /\ \A id \in DOMAIN adjacencyMap :
            /\ \A k \in 1..Len(adjacencyMap[id].outgoing) :
                 adjacencyMap[id].outgoing[k].target \in DOMAIN adjacencyMap
            /\ \A k \in 1..Len(adjacencyMap[id].incoming) :
                 adjacencyMap[id].incoming[k].source \in DOMAIN adjacencyMap
       /\ Range(impactResult.directImpact) \subseteq EntityIds(dataset)
       /\ Range(impactResult.indirectImpact) \subseteq EntityIds(dataset)


-----------------------------------------------------------------------------
(* The two adjacency maps *)

\* C21: for every dataset, AnalysisService.buildAdjacencyMap and
\* GraphFilterService.buildAdjacencyMap return the same mapping, with the
\* same outgoing and incoming lists in the same order for every entity
\* id, before and after each of the calls that build one.
C21_SameAdjacencyMap ==
  buildAdjacencyMap(dataset) = filterBuildAdjacencyMap(dataset)

\* A call made on a dataset that has a self-loop, a relationship to an id
\* that is no entity and a relationship with an empty endpoint
C21_Witness ==
  /\ phase = "extractReachableSubgraph"
  /\ \E r \in Range(dataset.relationships) :
       r.source = r.target /\ r.source \in EntityIds(dataset)
  /\ \E r \in Range(dataset.relationships) :
       r.source \in EntityIds(dataset) /\ r.target = "3"
  /\ \E r \in Range(dataset.relationships) :
       r.source = "" \/ r.target = ""
  /\ \E id \in EntityIds(dataset) :
       Len(buildAdjacencyMap(dataset)[id].outgoing) = 2


-----------------------------------------------------------------------------
(* Labels and colors of buildDataset *)

\* The value of the label column is absent from the row, null, or blank
LabelBlank(row, labelColumn) ==
  Cell(row, labelColumn) \in {Undefined, Null, Str("")}

\* C22: the label of an emitted entity is the string value of
\* row[labelColumn] when that value is present and non-blank, and the raw
\* source value when the label column is absent from the row, null or the
\* empty string (the row being the first that produces the entity).
C22_LabelFallback ==
  Built =>
    \A k \in 1..Len(built.entities) :
      LET first == FirstProducer(Producers(rawData, mapping, built.entities[k].id))
          class == mapping.classes[first[1]]
          row   == rawData[first[2]]
      IN built.entities[k].label =
           IF LabelBlank(row, class.labelColumn)
           THEN String(Cell(row, class.sourceColumn))
           ELSE String(Cell(row, class.labelColumn))

\* The class ids the mapping defines
ClassIds(m) == {m.classes[c].id : c \in 1..Len(m.classes)}

\* The color of the last class definition with the id
LastColor(m, id) ==
  LET last == CHOOSE c \in 1..Len(m.classes) :
                /\ m.classes[c].id = id
                /\ \A d \in 1..Len(m.classes) : m.classes[d].id = id => d <= c
  IN m.classes[last].color

-----------------------------------------------------------------------------
(* C24: termination of the path search and of the impact expansion *)

SearchDone == phase = "search" /\ search.frames = <<>>
ExpansionDone == phase = "expansion" /\ expansion.pc = "done"

\* The search that has returned found what findAllPaths finds, and the
\* expansion that has returned left the lists analyzeImpact reports
SearchAgrees ==
  SearchDone =>
    search.allPaths =
      findAllPaths(buildAdjacencyMap(dataset), sourceIds[1], targetIds[1],
                   SearchState(<<sourceIds[1]>>, <<>>, {sourceIds[1]}, <<>>),
                   maxParam).allPaths
ExpansionAgrees ==
  ExpansionDone =>
    /\ expansion.st.directImpact = analyzeImpact(dataset, sourceIds, maxParam).directImpact
    /\ expansion.st.indirectImpact = analyzeImpact(dataset, sourceIds, maxParam).indirectImpact

\* The search never has a node twice on the current path
PathNeverRevisits == phase = "search" => NoDup(search.currentPath)

\* A step that hands a layer to findIndirectImpacts
LayerHanded ==
  phase = "expansion" /\ expansion'.pc = "layer" /\ expansion' # expansion

\* The layer handed over holds no node twice and no node visited before it
FreshLayer ==
  /\ NoDup(expansion'.currentLayer)
  /\ \A k \in 1..Len(expansion'.currentLayer) :
       expansion'.currentLayer[k] \notin expansion.st.visited

\* The layer findIndirectImpacts hands to its recursive call: the nodes it
\* queued were not visited when it queued them, and none is queued twice
FreshNextLayer == (expansion.pc = "layer" /\ LayerHanded) => FreshLayer

\* C24 as stated: findPaths and analyzeImpact terminate for every finite
\* dataset and bound, cycles, self-loops and parallel edges included; the
\* search never revisits a node of the current path, and no layer of the
\* expansion holds a node that was visited before or holds a node twice
C24_NoLayerRequeues ==
  /\ <>(SearchDone \/ ExpansionDone)
  /\ []PathNeverRevisits
  /\ [][LayerHanded => FreshLayer]_vars

\* C24, amended: findPaths and analyzeImpact terminate for every finite
\* dataset and bound, cycles, self-loops and parallel edges included, with
\* the results of the recursive definitions; the search never revisits a node
\* of the current path, and every next layer findIndirectImpacts queues holds
\* only nodes not visited before, each once (the first layer, the direct
\* neighbours of a source, may repeat nodes)
C24_Terminates ==
  /\ <>(SearchDone \/ ExpansionDone)
  /\ [](SearchAgrees /\ ExpansionAgrees)
  /\ []PathNeverRevisits
  /\ [][FreshNextLayer]_vars

\* An expansion that has returned on a cycle: source 1, the direct neighbour
\* 2 with a relationship back to 1, and 3 queued on the next layer
C24_Witness ==
  /\ ExpansionDone
  /\ sourceIds = <<"1">>
  /\ expansion.st.directImpact = <<"2">>
  /\ expansion.st.indirectImpact = <<"3">>
  /\ \E i \in 1..Len(dataset.relationships) :
       dataset.relationships[i].source = "2" /\ dataset.relationships[i].target = "1"


-----------------------------------------------------------------------------
(* C25: the paths findPaths returns are well formed *)

\* The relationships of the dataset with the given id
RelationshipsWithId(ds, id) ==
  {k \in 1..Len(ds.relationships) : ds.relationships[k].id = id}

UniqueRelationshipIds(ds) ==
  \A i, j \in 1..Len(ds.relationships) :
    ds.relationships[i].id = ds.relationships[j].id => i = j

WellFormedPath(ds, path) ==
  LET nodes == path.nodes
      edges == path.edges
  IN /\ Len(nodes) > 0
     /\ nodes[1] \in Range(sourceIds)
     /\ nodes[Len(nodes)] \in Range(targetIds)
     /\ Len(edges) = Len(nodes) - 1
     /\ \A i \in 1..Len(edges) :
          /\ RelationshipsWithId(ds, edges[i]) # {}
          /\ \A k \in RelationshipsWithId(ds, edges[i]) :
               /\ ds.relationships[k].source = nodes[i]
               /\ ds.relationships[k].target = nodes[i + 1]
     /\ \A i \in 1..Len(nodes) : nodes[i] = nodes[Len(nodes)] => i = Len(nodes)
     /\ path.metadata.length = Len(nodes)
     /\ path.metadata.hops = Len(nodes) - 1

\* C25: every path returned by findPaths on a dataset with unique relationship
\* ids starts at an element of sourceIds and ends at an element of targetIds,
\* each of its edges is the id of the relationship from the node at its
\* position to the next node, its last node occurs nowhere else on it, and its
\* metadata give length = number of nodes and hops = number of nodes - 1.
C25_PathsWellFormed ==
  (Returned /\ UniqueRelationshipIds(dataset)) =>
    \A k \in 1..Len(pathResult.paths) : WellFormedPath(dataset, pathResult.paths[k])

\* A call with two sources and two targets that returned a path of three
\* nodes and a path of two nodes, on a dataset with parallel relationships
C25_Witness ==
  /\ Returned
  /\ UniqueRelationshipIds(dataset)
  /\ Len(sourceIds) = 2 /\ Len(targetIds) = 2
  /\ \E k \in 1..Len(pathResult.paths) : pathResult.paths[k].metadata.hops = 2
  /\ \E k \in 1..Len(pathResult.paths) : pathResult.paths[k].metadata.hops = 1
  /\ \E i, j \in 1..Len(dataset.relationships) :
       /\ i # j
       /\ dataset.relationships[i].source = dataset.relationships[j].source
       /\ dataset.relationships[i].target = dataset.relationships[j].target


-----------------------------------------------------------------------------
(* C26: impact-analysis mode of filterDataset and extractReachableSubgraph *)

\* C26: for a single source and every maxDepth >= 1, filterDataset with no
\* targets (impact-analysis mode) returns the entities and the relationships
\* extractReachableSubgraph returns for the same source and maxDepth, on
\* every dataset whose relationships all reference known entities.
C26_ImpactModeIsReachable ==
  (/\ phase = "filterDataset"
   /\ Len(sourceIds) = 1 /\ Len(targetIds) = 0
   /\ maxParam >= 1
   /\ EndpointsAmongEntities(dataset)) =>
    filtered = extractReachableSubgraph(dataset, sourceIds, maxParam)

\* An impact-mode call with maxDepth 1 on a closed dataset that returns the
\* source and a neighbour and leaves out an entity two relationships away
C26_Witness ==
  /\ phase = "filterDataset"
  /\ Len(sourceIds) = 1 /\ Len(targetIds) = 0
  /\ maxParam = 1
  /\ EndpointsAmongEntities(dataset)
  /\ Len(filtered.entities) = 2
  /\ Len(filtered.relationships) > 0
  /\ \E k \in 1..Len(dataset.relationships) :
       /\ dataset.relationships[k].source \in EntityIds(filtered) \ Range(sourceIds)
       /\ dataset.relationships[k].target \notin EntityIds(filtered)


-----------------------------------------------------------------------------
(* C27: completeness of the relationship pass *)

\* C27: for every relationship definition and every row whose source and
\* target values are present, whose full ids were both emitted as entities
\* and differ, the built Dataset contains a relationship of the definition's
\* type from the source's full id to the target's full id; none is lost to
\* another row or definition that produced the same relationship id.
C27_RelationshipsComplete ==
  Built =>
    \A d \in 1..Len(mapping.relationships), i \in 1..Len(rawData) :
      LET def == mapping.relationships[d]
          row == rawData[i]
          sourceFullId ==
            FullEntityId(def.sourceClass, EndpointValue(row, def.sourceColumn))
          targetFullId ==
            FullEntityId(def.targetClass, EndpointValue(row, def.targetColumn))
      IN (/\ NamesEndpoints(def, row)
          /\ sourceFullId \in EntityIds(built)
          /\ targetFullId \in EntityIds(built)
          /\ sourceFullId # targetFullId) =>
           \E k \in 1..Len(built.relationships) :
             /\ built.relationships[k].type = def.id
             /\ built.relationships[k].source = sourceFullId
             /\ built.relationships[k].target = targetFullId


-----------------------------------------------------------------------------
(* C28: soundness of the impact lists *)

\* The ids the relationships of ds lead to from an id of from
ForwardStep(ds, from) ==
  {ds.relationships[k].target :
     k \in {j \in 1..Len(ds.relationships) : ds.relationships[j].source \in from}}

\* The ids a forward path of at least 1 and at most d relationships of ds
\* leads to from an id of from
RECURSIVE ForwardBetweenOneAnd(_, _, _)
ForwardBetweenOneAnd(ds, from, d) ==
  IF d <= 1 THEN ForwardStep(ds, from)
  ELSE LET nearer == ForwardBetweenOneAnd(ds, from, d - 1)
       IN nearer \cup ForwardStep(ds, nearer)

\* C28: for maxDepth >= 1, every id in directImpact or indirectImpact is
\* reachable from some element of sourceIds by a forward path of at least 1
\* and at most maxDepth relationships of the dataset, and
\* metrics.totalImpactedNodes is the number of distinct ids reported.
C28_ImpactSound ==
  Analyzed /\ maxParam >= 1 =>
    LET reported == Range(impactResult.directImpact)
                      \cup Range(impactResult.indirectImpact)
    IN /\ reported
            \subseteq ForwardBetweenOneAnd(dataset, Range(sourceIds), maxParam)
       /\ impactResult.metrics.totalImpactedNodes = Cardinality(reported)

\* An analysis of the chain that reports the node maxDepth relationships
\* from the source and not the next one, for a maxDepth of at least 2
C28_Witness ==
  /\ Analyzed /\ maxParam >= 2
  /\ dataset = ChainDataset
  /\ ToString(maxParam + 1) \in Range(impactResult.indirectImpact)
  /\ ToString(maxParam + 2) \notin Range(impactResult.indirectImpact)
  /\ impactResult.metrics.totalImpactedNodes = maxParam


-----------------------------------------------------------------------------
(* C29: the analysis tools hold the dataset the viewer shows *)

\* The dataset a component holds, a component without one holding the empty
\* dataset
Held(ref) == IF ref = NullRef THEN EmptyDataset ELSE Deref(ref)

\* C29: after every event (dataset loaded in advanced mode, filter changed,
\* file uploaded, configuration applied, mode toggled) the dataset held by
\* the analysis tools is the dataset the graph viewer shows, the empty
\* dataset when the viewer is cleared, so that analysis never runs on a
\* dataset that is no longer displayed.
C29_AnalysisFollowsViewer ==
  AppRunning => Held(app.analysisDataset) = Held(app.viewerDataset)


-----------------------------------------------------------------------------
(* C30: backtracking in findAllPaths restores the shared state *)

\* A findAllPaths call has just been entered
AtEntry == Searching /\ Top(search.frames).pc = "entry"

\* The running call returns in this step
CallReturns ==
  Searching /\ Len(search'.frames) < Len(search.frames)

\* C30: at every entry to findAllPaths the visited set is the set of nodes of
\* currentPath, currentPath ends with currentNode and currentEdges is one
\* shorter than currentPath; and when a call returns, currentPath,
\* currentEdges and visited are what they were when it was entered.
C30_BacktrackingRestores ==
  /\ [](AtEntry =>
          /\ search.visited = Range(search.currentPath)
          /\ search.currentPath[Len(search.currentPath)]
               = Top(search.frames).currentNode
          /\ Len(search.currentEdges) = Len(search.currentPath) - 1)
  /\ [][CallReturns =>
          Shared(search'.currentPath, search'.currentEdges, search'.visited)
            = Top(search.frames).entry]_vars

\* The first call has returned after a deeper call that it made had tried
\* two edges itself, and a path was found
C30_Witness ==
  /\ SearchDone
  /\ Len(search.allPaths) > 0
  /\ \E k \in 1..Len(search.allPaths) : Len(search.allPaths[k].nodes) = 3
  /\ Len(dataset.relationships) = 3
  /\ \A i \in 1..Len(dataset.relationships) :
       dataset.relationships[i].source # sourceIds[1] => 
         dataset.relationships[i].source = search.allPaths[1].nodes[2]
  /\ Cardinality({i \in 1..Len(dataset.relationships) :
                    dataset.relationships[i].source # sourceIds[1]}) = 2

=============================================================================
